---- MODULE Spec2Model ----
(***************************************************************************)
(* Admission-control gateway of the RPC interceptor.                       *)
(*                                                                         *)
(* The model follows one intercepted call through interceptRPCCall         *)
(* (src/src/middlewares/rpcInterceptor.ts) together with any number of     *)
(* approveCall invocations on its id.  Entries of the interceptedCalls map *)
(* are keyed by unique generated ids and no handler touches the entry of   *)
(* another call, so the lifecycle of one entry is independent of the rest  *)
(* of the map.  A handler runs without interruption between two awaits     *)
(* that wait for I/O, so an action is the code between two such awaits.    *)
(***************************************************************************)
EXTENDS Integers, Sequences, FiniteSets, TLC

VARIABLES
    config,            \* utils/config.ts: the flags read by the handlers
    request,           \* the inbound JSON-RPC request of the call
    account,           \* the sender's profile in the ledger contract
    interceptedCalls,  \* the Map<string, InterceptedCall> of the interceptor
    pc,                \* position of interceptRPCCall for the call
    result,            \* the response interceptRPCCall pushed to results
    classified,        \* value returned by validateRPCCall
    assessed,          \* value returned by validateTransactionWithCommunity
    classifierCalls,   \* requests received by the external classifier
    forwarded,         \* requests received by the downstream endpoint
    approveInFlight,   \* approveCall invocations awaiting forwardRequest
    approveCalls,      \* number of approveCall invocations so far
    lastApprove,       \* id and outcome of the latest approveCall entry
    now,               \* Date.now()
    body,              \* req.body of a POST /: one request or an array
    results,           \* the results array of interceptRPCCall
    cursor,            \* index of the request the second loop is at
    sent,              \* the responses written with res.json
    downstream,        \* ids of the requests the downstream endpoint got
    reputationCalls,   \* lookups received by the ledger contract
    userProfiles,      \* ledger contract: mapping(address => UserProfile)
    qtoBalances,       \* ledger contract: mapping(address => uint256)
    qtoTotalSupply,    \* ledger contract: uint256 qtoTotalSupply
    hasUserRatedUser,  \* ledger contract: the pairs (rater, rated) set true
    pendingRewards,    \* ledger contract: mapping(address => uint256)
    lastTx,            \* the latest transaction sent to the ledger contract
    ledgerOps,         \* number of transactions sent to the ledger contract
    options,           \* the options argument of validateTransaction
    pipelineResult     \* the ValidationPipelineResult it returned

batchVars == <<body, results, cursor, sent, downstream, reputationCalls>>

ledgerVars == <<userProfiles, qtoBalances, qtoTotalSupply, hasUserRatedUser,
                pendingRewards, lastTx, ledgerOps>>

pipelineVars == <<options, pipelineResult>>

vars == <<config, request, account, interceptedCalls, pc, result, classified,
          assessed, classifierCalls, forwarded, approveInFlight, approveCalls,
          lastApprove, now, batchVars, ledgerVars, pipelineVars>>

\* ------------------------------------------------------------------ bounds
MaxApprovals == 2

\* --------------------------------------------------------------- constants
HighTrustScore == 500
MaxReportCount == 5

\* the id generateId() gives the call, and an id that was never generated
CallId == "c1"
UnknownId == "unknown"

\* ----------------------------------------------------------------- helpers
ReadOnlyMethods ==
    {"eth_blockNumber", "eth_getBalance", "eth_getCode", "eth_getStorageAt",
     "eth_call", "eth_estimateGas", "eth_gasPrice", "eth_getBlockByHash",
     "eth_getBlockByNumber", "eth_getTransactionByHash",
     "eth_getTransactionReceipt", "eth_getLogs", "net_version",
     "web3_clientVersion"}

HighRiskMethods ==
    {"eth_sendTransaction", "eth_sendRawTransaction",
     "personal_sendTransaction", "personal_unlockAccount", "miner_start",
     "miner_stop", "admin_addPeer", "debug_traceTransaction"}

\* methods whose name starts with "personal_" / "wallet_"
PersonalMethods ==
    {"personal_sendTransaction", "personal_unlockAccount", "personal_sign",
     "personal_listAccounts"}

WalletMethods == {"wallet_sendCalls"}

isReadOnlyMethod_noFastPath(method) == FALSE

isReadOnlyMethod(method) == method \in ReadOnlyMethods

isHighRiskMethod(method) == method \in HighRiskMethods

\* A request: its method, whether params[0] names a sender (params[0].from,
\* or params[0] itself for personal_* methods), whether params[0].value is
\* above 10 ether, and whether jsonrpc, method and id are all present.
NoRequest == [method |-> "none", sender |-> FALSE, large |-> FALSE,
              wellFormed |-> FALSE]

Requests ==
    {[method |-> "eth_blockNumber", sender |-> FALSE, large |-> FALSE,
      wellFormed |-> TRUE],
     [method |-> "eth_call", sender |-> TRUE, large |-> TRUE,
      wellFormed |-> TRUE],
     [method |-> "eth_sendTransaction", sender |-> TRUE, large |-> FALSE,
      wellFormed |-> TRUE],
     [method |-> "eth_sendTransaction", sender |-> TRUE, large |-> TRUE,
      wellFormed |-> TRUE],
     [method |-> "eth_sendTransaction", sender |-> FALSE, large |-> FALSE,
      wellFormed |-> TRUE],
     [method |-> "personal_sign", sender |-> TRUE, large |-> FALSE,
      wellFormed |-> TRUE],
     [method |-> "eth_accounts", sender |-> FALSE, large |-> FALSE,
      wellFormed |-> TRUE],
     [method |-> "eth_sendTransaction", sender |-> TRUE, large |-> FALSE,
      wellFormed |-> FALSE]}

extractUserAddress(req) ==
    IF req.method = "eth_sendTransaction" /\ req.sender THEN TRUE
    ELSE IF req.method \in {"eth_accounts", "personal_listAccounts"} THEN FALSE
    ELSE IF req.method \in PersonalMethods /\ req.sender THEN TRUE
    ELSE IF req.method \in WalletMethods /\ req.sender THEN TRUE
    ELSE FALSE

\* ------------------------------------------------------ classifier adapter
NoVerdict == [riskLevel |-> "none", shouldProceed |-> FALSE,
              reasoning |-> "none"]

PendingValidation == [riskLevel |-> "MEDIUM", shouldProceed |-> FALSE,
                      reasoning |-> "Pending validation"]

ReadOnlyVerdict == [riskLevel |-> "LOW", shouldProceed |-> TRUE,
                    reasoning |-> "Read-only method"]

fallbackValidation_allowAll(req) ==
    [riskLevel |-> "MEDIUM", shouldProceed |-> TRUE,
     reasoning |-> "Standard method - fallback"]

fallbackValidation(req) ==
    IF isReadOnlyMethod(req.method)
    THEN [riskLevel |-> "LOW", shouldProceed |-> TRUE,
          reasoning |-> "Read-only method - fallback"]
    ELSE IF isHighRiskMethod(req.method)
    THEN [riskLevel |-> "HIGH", shouldProceed |-> FALSE,
          reasoning |-> "High-risk method blocked by fallback"]
    ELSE [riskLevel |-> "MEDIUM", shouldProceed |-> TRUE,
          reasoning |-> "Standard method - fallback"]

\* the call to the classifier threw: an error or the 15 s timeout
ClassifierError == [error |-> TRUE, risk |-> "absent", proceed |-> "absent"]

\* What the external classifier can answer: an error or timeout, or a text
\* whose RISK_LEVEL and SHOULD_PROCEED lines are present or absent.
ClassifierReplies ==
    [error : {FALSE},
     risk : {"LOW", "MEDIUM", "HIGH", "absent"},
     proceed : {"true", "false", "absent"}]
    \cup {[error |-> TRUE, risk |-> "absent", proceed |-> "absent"]}

parseAIResponse(reply, req) ==
    [riskLevel |-> IF reply.risk \in {"LOW", "MEDIUM", "HIGH"}
                   THEN reply.risk ELSE "MEDIUM",
     shouldProceed |-> (reply.proceed = "true"),
     reasoning |-> "AI"]

\* validateRPCCall after the fast path: analyzeWithAI, or the fallback when
\* the call to the classifier throws
analyzeWithAI(reply, req) ==
    IF reply.error THEN fallbackValidation(req)
    ELSE parseAIResponse(reply, req)

\* ------------------------------------------------------ reputation adapter
NoProfile == [found |-> FALSE, trustScore |-> 0, reportCount |-> 0,
              isActive |-> FALSE]

Profiles ==
    [found : {TRUE}, trustScore : {50, 100, 500, 1000},
     reportCount : {0, 6}, isActive : BOOLEAN]
    \cup {NoProfile}

NoAssessment == [present |-> FALSE, isValid |-> FALSE, trustLevel |-> "low",
                 trustScore |-> 0, warnings |-> 0]

calculateTrustLevel_strict(trustScore) ==
    IF trustScore > 1000 THEN "very_high"
    ELSE IF trustScore > HighTrustScore THEN "high"
    ELSE IF trustScore > 100 THEN "medium"
    ELSE "low"

calculateTrustLevel(trustScore) ==
    IF trustScore >= 1000 THEN "very_high"
    ELSE IF trustScore >= HighTrustScore THEN "high"
    ELSE IF trustScore >= 100 THEN "medium"
    ELSE "low"

validateTransactionWithCommunity_lenientOnMissing(profile, large) ==
    IF ~profile.found
    THEN [present |-> TRUE, isValid |-> TRUE, trustLevel |-> "low",
          trustScore |-> 0, warnings |-> 0]
    ELSE [present |-> TRUE,
          isValid |-> ~(profile.reportCount > MaxReportCount
                        \/ ~profile.isActive
                        \/ (large /\ profile.trustScore < 100)),
          trustLevel |-> calculateTrustLevel(profile.trustScore),
          trustScore |-> profile.trustScore,
          warnings |-> 1]

\* profile is what getUserProfile returned (NoProfile for null); warnings is
\* the number of warnings in the verdict
validateTransactionWithCommunity(profile, large) ==
    IF ~profile.found
    THEN [present |-> TRUE, isValid |-> FALSE, trustLevel |-> "low",
          trustScore |-> 0, warnings |-> 1]
    ELSE LET trustLevel == calculateTrustLevel(profile.trustScore)
             reported == profile.reportCount > MaxReportCount
             inactive == ~profile.isActive
             lowLarge == large /\ trustLevel = "low"
             mediumLarge == large /\ trustLevel = "medium"
             count(b) == IF b THEN 1 ELSE 0
         IN [present |-> TRUE,
             isValid |-> ~(reported \/ inactive \/ lowLarge),
             trustLevel |-> trustLevel,
             trustScore |-> profile.trustScore,
             warnings |-> count(reported) + count(inactive)
                          + count(lowLarge) + count(mediumLarge)]

\* ---------------------------------------------------- decision combinator
\* the communityValidation field of a ValidationPipelineResult
NoCommunity == [present |-> FALSE, isValid |-> FALSE, trustLevel |-> "low",
                trustScore |-> 0, recommendation |-> "reject"]

getCommunityRecommendation(validation) ==
    IF ~validation.isValid THEN "reject"
    ELSE IF validation.trustLevel \in {"very_high", "high"} THEN "approve"
    ELSE IF validation.trustLevel = "medium" THEN "manual_review"
    ELSE "reject"

\* validateTransaction, lines 100-106: the verdict with its recommendation
communityResult(validation) ==
    [present |-> TRUE, isValid |-> validation.isValid,
     trustLevel |-> validation.trustLevel,
     trustScore |-> validation.trustScore,
     recommendation |-> getCommunityRecommendation(validation)]

makeDecision_reputationFirst(aiValidation, communityValidation, forceManualReview) ==
    IF forceManualReview
    THEN [approved |-> FALSE, requiresManualReview |-> TRUE,
          riskLevel |-> aiValidation.riskLevel, autoApproved |-> FALSE]
    ELSE IF communityValidation.present /\ communityValidation.isValid
            /\ communityValidation.trustLevel \in {"very_high", "high"}
    THEN [approved |-> TRUE, requiresManualReview |-> FALSE,
          riskLevel |-> aiValidation.riskLevel, autoApproved |-> FALSE]
    ELSE IF ~aiValidation.shouldProceed
    THEN [approved |-> FALSE,
          requiresManualReview |-> (aiValidation.riskLevel = "MEDIUM"),
          riskLevel |-> aiValidation.riskLevel, autoApproved |-> FALSE]
    ELSE IF communityValidation.present /\ ~communityValidation.isValid
    THEN [approved |-> FALSE,
          requiresManualReview |->
              (communityValidation.recommendation = "manual_review"),
          riskLevel |-> "HIGH", autoApproved |-> FALSE]
    ELSE [approved |-> TRUE,
          requiresManualReview |->
              (aiValidation.riskLevel = "HIGH"
               \/ (communityValidation.present
                   /\ communityValidation.recommendation = "manual_review")),
          riskLevel |-> aiValidation.riskLevel, autoApproved |-> FALSE]

makeDecision(aiValidation, communityValidation, forceManualReview) ==
    IF forceManualReview
    THEN [approved |-> FALSE, requiresManualReview |-> TRUE,
          riskLevel |-> aiValidation.riskLevel, autoApproved |-> FALSE]
    ELSE IF ~aiValidation.shouldProceed
    THEN [approved |-> FALSE,
          requiresManualReview |-> (aiValidation.riskLevel = "MEDIUM"),
          riskLevel |-> aiValidation.riskLevel, autoApproved |-> FALSE]
    ELSE IF communityValidation.present /\ ~communityValidation.isValid
    THEN [approved |-> FALSE,
          requiresManualReview |->
              (communityValidation.recommendation = "manual_review"),
          riskLevel |-> "HIGH", autoApproved |-> FALSE]
    ELSE [approved |-> TRUE,
          requiresManualReview |->
              (aiValidation.riskLevel = "HIGH"
               \/ (communityValidation.present
                   /\ communityValidation.recommendation = "manual_review")),
          riskLevel |-> aiValidation.riskLevel, autoApproved |-> FALSE]

checkAutoApprovalEligibility_anyTrust(cfg, aiValidation, communityValidation) ==
    IF ~cfg.autoApprove.enabled THEN FALSE
    ELSE IF cfg.autoApprove.lowRiskOnly /\ aiValidation.riskLevel # "LOW"
    THEN FALSE
    ELSE TRUE

checkAutoApprovalEligibility(cfg, aiValidation, communityValidation) ==
    IF ~cfg.autoApprove.enabled THEN FALSE
    ELSE IF cfg.autoApprove.lowRiskOnly /\ aiValidation.riskLevel # "LOW"
    THEN FALSE
    ELSE IF cfg.autoApprove.highTrustUsersOnly
            /\ communityValidation.trustScore < HighTrustScore
    THEN FALSE
    ELSE TRUE

\* --------------------------------------------------- validation pipeline
\* validateTransaction, lines 53-74: the result structure before the steps
NewPipelineResult(userAddress) ==
    [userAddress |-> userAddress,
     aiValidation |-> [riskLevel |-> "MEDIUM", shouldProceed |-> FALSE,
                       reasoning |-> "Validation pending"],
     communityValidation |-> NoCommunity,
     finalDecision |-> [approved |-> FALSE, requiresManualReview |-> FALSE,
                        riskLevel |-> "MEDIUM", autoApproved |-> FALSE]]

\* validateTransaction, lines 37-157.  reply is what the external classifier
\* answers and profile what getUserProfile returns, if they get asked.
\* validateRPCCall and validateTransactionWithCommunity catch their own
\* errors, and so does recordTransactionAttempt.
validateTransaction(cfg, req, reply, profile, opts) ==
    LET userAddress == extractUserAddress(req)
        r0 == NewPipelineResult(userAddress)
        r1 == IF cfg.aiValidationEnabled /\ ~opts.skipAI
              THEN [r0 EXCEPT !.aiValidation =
                       IF isReadOnlyMethod(req.method) THEN ReadOnlyVerdict
                       ELSE analyzeWithAI(reply, req)]
              ELSE r0
        r2 == IF cfg.communityValidationEnabled /\ ~opts.skipCommunity
                 /\ userAddress
              THEN [r1 EXCEPT !.communityValidation =
                       communityResult(
                           validateTransactionWithCommunity(profile,
                                                            req.large))]
              ELSE r1
        r3 == [r2 EXCEPT !.finalDecision =
                  makeDecision(r2.aiValidation, r2.communityValidation,
                               opts.forceManualReview)]
    IN  IF r3.finalDecision.approved
           /\ ~r3.finalDecision.requiresManualReview
        THEN [r3 EXCEPT !.finalDecision.autoApproved =
                 checkAutoApprovalEligibility(cfg, r3.aiValidation,
                                              r3.communityValidation)]
        ELSE r3

InitPipelineVars ==
    /\ options = [skipAI |-> FALSE, skipCommunity |-> FALSE,
                  forceManualReview |-> FALSE]
    /\ pipelineResult = NewPipelineResult(FALSE)

\* ----------------------------------------------------------- configuration
Configs ==
    [aiValidationEnabled : BOOLEAN,
     communityValidationEnabled : BOOLEAN,
     autoApprove : [enabled : BOOLEAN, lowRiskOnly : BOOLEAN,
                    highTrustUsersOnly : BOOLEAN]]

\* --------------------------------------------------------------- responses
NoResponse == [kind |-> "none", code |-> 0, message |-> "none"]

InvalidRequestResponse ==
    [kind |-> "error", code |-> -32600, message |-> "Invalid Request"]

RejectedResponse ==
    [kind |-> "error", code |-> -32001,
     message |-> "Request rejected by validation"]

PendingResponse ==
    [kind |-> "error", code |-> -32002,
     message |-> "Manual approval required"]

ForwardFailedResponse ==
    [kind |-> "error", code |-> -32603,
     message |-> "Internal error: Failed to forward request"]

\* What the downstream endpoint can do with a forwarded request: answer it
\* (response.data, a result or a JSON-RPC error of its own, is passed on
\* as it is), or not answer (network error or timeout).
DownstreamOutcomes == {"answered", "networkError"}

\* RPCProxyService.forwardRequest: the response it resolves to; it catches
\* every error of the HTTP call and never throws
forwardRequest(outcome) ==
    IF outcome = "answered"
    THEN [kind |-> "result", code |-> 0, message |-> "response.data"]
    ELSE ForwardFailedResponse

\* ------------------------------------------------- call lifecycle manager
Statuses == {"pending", "validated", "rejected", "completed", "failed"}

NoCommunityValidation ==
    [present |-> FALSE, userTrustScore |-> 0, recommendation |-> "none"]

\* interceptRPCCall, lines 43-55: the record stored on receipt
newInterceptedCall(req, time) ==
    [status |-> "pending",
     aiValidation |-> PendingValidation,
     communityValidation |-> NoCommunityValidation,
     userAddress |-> extractUserAddress(req),
     response |-> NoResponse,
     timestamp |-> time,
     processingTimeMs |-> 0]

stored(id) == id \in DOMAIN interceptedCalls

\* interceptRPCCall, lines 112-115
shouldAutoApprove(cfg, call) ==
    /\ cfg.autoApprove.enabled
    /\ (call.aiValidation.riskLevel = "LOW" \/ ~cfg.autoApprove.lowRiskOnly)
    /\ (~cfg.autoApprove.highTrustUsersOnly
        \/ call.communityValidation.userTrustScore >= HighTrustScore)

\* interceptRPCCall, lines 109-168: what the handler does with the record once
\* the verdicts are in: reject, hold for manual approval, or call
\* forwardRequest.  forward tells whether the request goes downstream.
admit(cfg, call) ==
    LET status == IF call.aiValidation.shouldProceed
                  THEN "validated" ELSE "rejected"
    IN  IF ~call.aiValidation.shouldProceed
        THEN [call |-> [call EXCEPT !.status = "rejected",
                                    !.response = RejectedResponse],
              result |-> RejectedResponse, pc |-> "done", forward |-> FALSE]
        ELSE IF ~shouldAutoApprove(cfg, call)
                /\ call.aiValidation.riskLevel # "LOW"
        THEN [call |-> [call EXCEPT !.status = status,
                                    !.response = PendingResponse],
              result |-> PendingResponse, pc |-> "done", forward |-> FALSE]
        ELSE [call |-> [call EXCEPT !.status = status],
              result |-> NoResponse, pc |-> "forward", forward |-> TRUE]

\* interceptRPCCall, lines 71-74 and 109: the verdict is stored; with a
\* sender and community validation enabled the handler awaits the reputation
\* adapter, otherwise it decides at once
afterClassify(cfg, call, verdict) ==
    LET c1 == [call EXCEPT !.aiValidation = verdict]
    IN  IF cfg.communityValidationEnabled /\ c1.userAddress
        THEN [call |-> c1, result |-> NoResponse, pc |-> "community",
              forward |-> FALSE]
        ELSE admit(cfg, c1)

\* interceptRPCCall, lines 83-100: the reputation verdict is recorded and
\* combined with the classifier verdict
combine(call, verdict) ==
    [call EXCEPT
        !.communityValidation =
            [present |-> TRUE, userTrustScore |-> verdict.trustScore,
             recommendation |->
                 IF verdict.isValid THEN "approve" ELSE "reject"],
        !.aiValidation =
            IF call.aiValidation.shouldProceed /\ verdict.isValid
            THEN call.aiValidation
            ELSE [call.aiValidation EXCEPT !.shouldProceed = FALSE,
                                           !.reasoning = "combined"]]

\* approveCall, line 224: the guard that lets an approval through
canApprove_anyOpen(id) ==
    stored(id) /\ interceptedCalls[id].status \in {"pending", "validated"}

canApprove(id) ==
    stored(id) /\ interceptedCalls[id].status = "pending"

completed_keepsStatus(call, response, time) ==
    [call EXCEPT !.response = response,
                 !.processingTimeMs = time - call.timestamp]

\* interceptRPCCall, lines 170-172, and approveCall, lines 233-235
completed(call, response, time) ==
    [call EXCEPT !.response = response,
                 !.status = "completed",
                 !.processingTimeMs = time - call.timestamp]

\* ------------------------------------------------------------------
\* The ledger contract (CommunityInteractionRating.sol).
\* Token amounts are counted in units of 10^11 wei: every amount the
\* contract computes below is a whole number of units, because the base
\* rewards are multiples of 10^14 wei and the significances used are
\* multiples of 10.
\* ------------------------------------------------------------------

\* address(this): the contract's own account, the treasury
This == "this"

\* the accounts: A is the account under observation, B a second account
\* that rates, reports and rewards A
Addresses == {"A", "B"}

\* 10^18 wei (one token, _awardReward's conversion) in units
UnitsPerToken == 10000000

LIKE_WEIGHT == 1
COMMENT_WEIGHT == 3
POST_WEIGHT == 5
HELPFUL_WEIGHT == 10
REPORT_PENALTY == 20
VALIDATION_WEIGHT == 2
VALIDATION_BASE_REWARD == 10
SUCCESSFUL_VALIDATION_BONUS == 5

\* the cap of the trust score and the score of a new account
MaxTrustScore == 1000
InitialTrustScore == 100

\* the denominator of significances and of tier multipliers (1000 = 1.0x)
Thousand == 1000

\* rewardTiers as the constructor pushes them
rewardTiers ==
    << [minTrustScore |-> 0, baseReward |-> 1, validationReward |-> 2,
        qtoMultiplier |-> 800, tierName |-> "Bronze"],
       [minTrustScore |-> 100, baseReward |-> 3, validationReward |-> 5,
        qtoMultiplier |-> 1000, tierName |-> "Silver"],
       [minTrustScore |-> 500, baseReward |-> 5, validationReward |-> 10,
        qtoMultiplier |-> 1200, tierName |-> "Gold"],
       [minTrustScore |-> 1000, baseReward |-> 10, validationReward |-> 20,
        qtoMultiplier |-> 1500, tierName |-> "Platinum"] >>

QoneqtInteractionType ==
    {"LIKE", "COMMENT", "SHARE", "POST", "FOLLOW", "STORY_VIEW", "MESSAGE",
     "GROUP_JOIN", "EVENT_ATTEND", "MARKETPLACE_PURCHASE"}

\* qoneqtBaseRewards as the constructor sets them, in units
\* (POST: 10 * 10^15 wei = 100000 units)
qoneqtBaseRewards ==
    [t \in QoneqtInteractionType |->
        CASE t = "LIKE" -> 10000
          [] t = "COMMENT" -> 50000
          [] t = "SHARE" -> 30000
          [] t = "POST" -> 100000
          [] t = "FOLLOW" -> 20000
          [] t = "STORY_VIEW" -> 1000
          [] t = "MESSAGE" -> 20000
          [] t = "GROUP_JOIN" -> 80000
          [] t = "EVENT_ATTEND" -> 150000
          [] t = "MARKETPLACE_PURCHASE" -> 250000]

\* the most trust points one interaction of a type can add
trustBoostPoints ==
    [t \in QoneqtInteractionType |->
        CASE t = "LIKE" -> 1
          [] t = "COMMENT" -> 3
          [] t = "SHARE" -> 2
          [] t = "POST" -> 5
          [] t = "FOLLOW" -> 2
          [] t = "STORY_VIEW" -> 1
          [] t = "MESSAGE" -> 2
          [] t = "GROUP_JOIN" -> 4
          [] t = "EVENT_ATTEND" -> 6
          [] t = "MARKETPLACE_PURCHASE" -> 8]

\* userProfiles[a] of an address that never registered
EmptyProfile ==
    [isActive |-> FALSE, likes |-> 0, comments |-> 0, posts |-> 0,
     helpfulResponses |-> 0, reportsReceived |-> 0, validationCount |-> 0,
     trustScore |-> 0, rewardBalance |-> 0, totalEarned |-> 0,
     qtoBalance |-> 0, qoneqtInteractions |-> 0, avgSignificanceScore |-> 0]

\* the profile registerUser writes
NewProfile ==
    [isActive |-> TRUE, likes |-> 0, comments |-> 0, posts |-> 0,
     helpfulResponses |-> 0, reportsReceived |-> 0, validationCount |-> 0,
     trustScore |-> InitialTrustScore, rewardBalance |-> 0, totalEarned |-> 0,
     qtoBalance |-> 0, qoneqtInteractions |-> 0, avgSignificanceScore |-> 0]

RECURSIVE tierLoop(_, _, _)
\* the loop of _getUserTier from index i on, userTier being the tier so far
tierLoop(trustScore, i, userTier) ==
    IF i > Len(rewardTiers) THEN userTier
    ELSE tierLoop(trustScore, i + 1,
                  IF trustScore >= rewardTiers[i].minTrustScore
                  THEN rewardTiers[i] ELSE userTier)

getUserTier_strict(trustScore) ==
    LET above == {i \in 1..Len(rewardTiers) :
                     trustScore > rewardTiers[i].minTrustScore}
    IN  IF above = {} THEN rewardTiers[1]
        ELSE rewardTiers[CHOOSE i \in above : \A j \in above : j <= i]

\* _getUserTier: the highest tier the trust score qualifies for
getUserTier(trustScore) == tierLoop(trustScore, 1, rewardTiers[1])

updateTrustScore_uncapped(profile) ==
    LET positiveScore == profile.likes * LIKE_WEIGHT
                         + profile.comments * COMMENT_WEIGHT
                         + profile.posts * POST_WEIGHT
                         + profile.helpfulResponses * HELPFUL_WEIGHT
                         + profile.validationCount * VALIDATION_WEIGHT
        negativeScore == profile.reportsReceived * REPORT_PENALTY
    IN  [profile EXCEPT !.trustScore =
            IF positiveScore > negativeScore
            THEN InitialTrustScore + (positiveScore - negativeScore)
            ELSE 0]

\* _updateTrustScore: the score recomputed from the profile's counters
updateTrustScore(profile) ==
    LET positiveScore == profile.likes * LIKE_WEIGHT
                         + profile.comments * COMMENT_WEIGHT
                         + profile.posts * POST_WEIGHT
                         + profile.helpfulResponses * HELPFUL_WEIGHT
                         + profile.validationCount * VALIDATION_WEIGHT
        negativeScore == profile.reportsReceived * REPORT_PENALTY
        newScore == IF positiveScore > negativeScore
                    THEN IF InitialTrustScore + (positiveScore - negativeScore)
                            > MaxTrustScore
                         THEN MaxTrustScore
                         ELSE InitialTrustScore
                              + (positiveScore - negativeScore)
                    ELSE 0
    IN  [profile EXCEPT !.trustScore = newScore]

\* _updateTrustScoreFromQoneqt: the boost of one rewarded interaction
updateTrustScoreFromQoneqt(profile, interactionType, aiSignificance) ==
    LET trustBoost ==
            (aiSignificance * trustBoostPoints[interactionType]) \div Thousand
    IN  [profile EXCEPT !.trustScore =
            IF profile.trustScore + trustBoost > MaxTrustScore
            THEN MaxTrustScore
            ELSE profile.trustScore + trustBoost]

updateAverageSignificance_roundUp(profile, aiSignificance) ==
    LET n == profile.qoneqtInteractions + 1
        totalSignificance == profile.avgSignificanceScore * (n - 1)
    IN  [profile EXCEPT
            !.qoneqtInteractions = n,
            !.avgSignificanceScore =
                (totalSignificance + aiSignificance + n - 1) \div n]

\* processQoneqtInteraction, lines 228-236: the interaction is counted and
\* the average significance updated
updateAverageSignificance(profile, aiSignificance) ==
    LET n == profile.qoneqtInteractions + 1
        totalSignificance == profile.avgSignificanceScore * (n - 1)
    IN  [profile EXCEPT
            !.qoneqtInteractions = n,
            !.avgSignificanceScore =
                (totalSignificance + aiSignificance) \div n]

\* the amount processQoneqtInteraction computes (tierMultipliedReward)
tierMultipliedReward(trustScore, interactionType, aiSignificance) ==
    LET baseReward == qoneqtBaseRewards[interactionType]
        significanceReward == (baseReward * aiSignificance) \div Thousand
        userTier == getUserTier(trustScore)
    IN  (significanceReward * userTier.qtoMultiplier) \div Thousand

\* the state of the contract as one value
Ledger(profiles, balances, supply, rated, pending) ==
    [userProfiles |-> profiles, qtoBalances |-> balances,
     qtoTotalSupply |-> supply, hasUserRatedUser |-> rated,
     pendingRewards |-> pending]

\* a transaction that reverts changes nothing
Revert(L, error) == [ok |-> FALSE, ledger |-> L, paid |-> 0, error |-> error]

Success(L, paid) == [ok |-> TRUE, ledger |-> L, paid |-> paid, error |-> ""]

registerUser_overwrite(L, sender) ==
    Success([L EXCEPT !.userProfiles[sender] = NewProfile], 0)

\* registerUser
registerUser(L, sender) ==
    IF L.userProfiles[sender].isActive
    THEN Revert(L, "User already registered")
    ELSE Success([L EXCEPT !.userProfiles[sender] = NewProfile], 0)

\* recordLike
recordLike(L, sender) ==
    IF ~L.userProfiles[sender].isActive THEN Revert(L, "User not active")
    ELSE Success([L EXCEPT !.userProfiles[sender] =
                     updateTrustScore([@ EXCEPT !.likes = @ + 1])], 0)

\* recordComment
recordComment(L, sender) ==
    IF ~L.userProfiles[sender].isActive THEN Revert(L, "User not active")
    ELSE Success([L EXCEPT !.userProfiles[sender] =
                     updateTrustScore([@ EXCEPT !.comments = @ + 1])], 0)

\* recordPost
recordPost(L, sender) ==
    IF ~L.userProfiles[sender].isActive THEN Revert(L, "User not active")
    ELSE Success([L EXCEPT !.userProfiles[sender] =
                     updateTrustScore([@ EXCEPT !.posts = @ + 1])], 0)

recordHelpfulResponse_repeatable(L, sender, helper) ==
    IF ~L.userProfiles[sender].isActive THEN Revert(L, "User not active")
    ELSE IF helper = sender
    THEN Revert(L, "Cannot mark own response as helpful")
    ELSE Success([L EXCEPT
                     !.userProfiles[helper] =
                         updateTrustScore(
                             [@ EXCEPT !.helpfulResponses = @ + 1]),
                     !.hasUserRatedUser = @ \cup {<<sender, helper>>}], 0)

\* recordHelpfulResponse
recordHelpfulResponse(L, sender, helper) ==
    IF ~L.userProfiles[sender].isActive THEN Revert(L, "User not active")
    ELSE IF helper = sender
    THEN Revert(L, "Cannot mark own response as helpful")
    ELSE IF <<sender, helper>> \in L.hasUserRatedUser
    THEN Revert(L, "Already rated this user")
    ELSE Success([L EXCEPT
                     !.userProfiles[helper] =
                         updateTrustScore(
                             [@ EXCEPT !.helpfulResponses = @ + 1]),
                     !.hasUserRatedUser = @ \cup {<<sender, helper>>}], 0)

\* reportUser (the reporter's reportsMade counter is left out)
reportUser(L, sender, reportedUser) ==
    IF ~L.userProfiles[sender].isActive THEN Revert(L, "User not active")
    ELSE IF reportedUser = sender THEN Revert(L, "Cannot report yourself")
    ELSE IF ~L.userProfiles[reportedUser].isActive
    THEN Revert(L, "Reported user not active")
    ELSE Success([L EXCEPT !.userProfiles[reportedUser] =
                     updateTrustScore(
                         [@ EXCEPT !.reportsReceived = @ + 1])], 0)

\* _awardReward: amount tokens, times the tier multiplier, paid from the
\* treasury (qtoAmount * qtoMultiplier / 1000 with qtoAmount = amount * 10^18)
awardReward(L, user, amount) ==
    LET tier == getUserTier(L.userProfiles[user].trustScore)
        finalAmount == amount * (UnitsPerToken \div Thousand)
                       * tier.qtoMultiplier
    IN  IF ~(L.qtoBalances[This] >= finalAmount)
        THEN Revert(L, "Contract insufficient QTO balance")
        ELSE Success([L EXCEPT !.qtoBalances[This] = @ - finalAmount,
                               !.qtoBalances[user] = @ + finalAmount,
                               !.userProfiles[user].qtoBalance =
                                   @ + finalAmount,
                               !.userProfiles[user].totalEarned = @ + amount],
                     finalAmount)

\* recordValidation
recordValidation(L, sender, validator, successful) ==
    IF ~L.userProfiles[sender].isActive THEN Revert(L, "User not active")
    ELSE IF validator # sender
    THEN Revert(L, "Can only record own validations")
    ELSE
    LET counted == [L EXCEPT !.userProfiles[validator].validationCount =
                                @ + 1]
        base == IF successful
                THEN VALIDATION_BASE_REWARD + SUCCESSFUL_VALIDATION_BONUS
                ELSE VALIDATION_BASE_REWARD
        tier == getUserTier(counted.userProfiles[validator].trustScore)
        reward == (base * tier.validationReward) \div tier.baseReward
        awarded == awardReward(counted, validator, reward)
    IN  IF ~awarded.ok THEN Revert(L, awarded.error)
        ELSE Success([awarded.ledger EXCEPT !.userProfiles[validator] =
                         updateTrustScore(@)], awarded.paid)

\* _processQoneqtInteractionInternal: one element of a batch
processQoneqtInteractionInternal(L, user, interactionType, aiSignificance) ==
    IF ~L.userProfiles[user].isActive
    THEN Revert(L, "Target user not active")
    ELSE IF ~(aiSignificance <= Thousand)
    THEN Revert(L, "Significance must be 0-1000")
    ELSE
    LET reward == tierMultipliedReward(L.userProfiles[user].trustScore,
                                       interactionType, aiSignificance)
    IN  Success([L EXCEPT
                    !.userProfiles[user].qtoBalance = @ + reward,
                    !.userProfiles[user] =
                        updateAverageSignificance(@, aiSignificance),
                    !.userProfiles[user] =
                        updateTrustScoreFromQoneqt(@, interactionType,
                                                   aiSignificance),
                    !.qtoBalances[user] = @ + reward], reward)

\* processQoneqtInteraction
processQoneqtInteraction(L, sender, user, interactionType, aiSignificance) ==
    IF ~L.userProfiles[sender].isActive THEN Revert(L, "User not active")
    ELSE IF ~L.userProfiles[user].isActive
    THEN Revert(L, "Target user not active")
    ELSE IF ~(aiSignificance <= Thousand)
    THEN Revert(L, "Significance must be 0-1000")
    ELSE
    LET reward == tierMultipliedReward(L.userProfiles[user].trustScore,
                                       interactionType, aiSignificance)
    IN  Success([L EXCEPT
                    !.userProfiles[user].qtoBalance = @ + reward,
                    !.userProfiles[user] =
                        updateAverageSignificance(@, aiSignificance),
                    !.userProfiles[user] =
                        updateTrustScoreFromQoneqt(@, interactionType,
                                                   aiSignificance),
                    !.qtoBalances[user] = @ + reward], reward)

RECURSIVE batchLoop(_, _, _, _)
\* the loop of batchProcessQoneqtInteractions from element i on; paid is the
\* sum of the rewards so far; one failing element reverts the transaction
batchLoop(L, items, i, paid) ==
    IF i > Len(items) THEN Success(L, paid)
    ELSE LET one == processQoneqtInteractionInternal(
                        L, items[i].user, items[i].interactionType,
                        items[i].aiSignificance)
         IN  IF ~one.ok THEN one
             ELSE batchLoop(one.ledger, items, i + 1, paid + one.paid)

\* batchProcessQoneqtInteractions
batchProcessQoneqtInteractions(L, sender, items) ==
    IF ~L.userProfiles[sender].isActive THEN Revert(L, "User not active")
    ELSE LET done == batchLoop(L, items, 1, 0)
         IN  IF done.ok THEN done ELSE Revert(L, done.error)

\* mintQtoToContract (no access control)
mintQtoToContract(L, amount) ==
    Success([L EXCEPT !.qtoBalances[This] = @ + amount,
                      !.qtoTotalSupply = @ + amount], 0)

\* address(0)
ZeroAddress == "0x0"

qtoTransfer_unchecked(L, sender, to, amount) ==
    IF to = ZeroAddress THEN Revert(L, "Cannot transfer to zero address")
    ELSE Success([L EXCEPT !.qtoBalances[sender] = @ - amount,
                           !.qtoBalances[to] = @ + amount], 0)

\* qtoTransfer
qtoTransfer(L, sender, to, amount) ==
    IF ~(L.qtoBalances[sender] >= amount)
    THEN Revert(L, "Insufficient QTO balance")
    ELSE IF to = ZeroAddress
    THEN Revert(L, "Cannot transfer to zero address")
    ELSE Success([L EXCEPT !.qtoBalances[sender] = @ - amount,
                           !.qtoBalances[to] = @ + amount], 0)

\* fundContractQto
fundContractQto(L, sender, amount) ==
    IF ~(L.qtoBalances[sender] >= amount)
    THEN Revert(L, "Insufficient QTO balance")
    ELSE Success([L EXCEPT !.qtoBalances[sender] = @ - amount,
                           !.qtoBalances[This] = @ + amount], 0)

\* emergencyWithdrawQto (any sender)
emergencyWithdrawQto(L, to, amount) ==
    IF ~(L.qtoBalances[This] >= amount)
    THEN Revert(L, "Contract insufficient QTO balance")
    ELSE Success([L EXCEPT !.qtoBalances[This] = @ - amount,
                           !.qtoBalances[to] = @ + amount], 0)

\* awardCommunityReward
awardCommunityReward(L, sender, user, amount) ==
    IF ~L.userProfiles[sender].isActive THEN Revert(L, "User not active")
    ELSE IF ~L.userProfiles[user].isActive THEN Revert(L, "User not active")
    ELSE awardReward(L, user, amount)

\* claimRewards
claimRewards(L, sender) ==
    IF ~L.userProfiles[sender].isActive THEN Revert(L, "User not active")
    ELSE LET amount == L.pendingRewards[sender]
         IN  IF ~(amount > 0) THEN Revert(L, "No rewards to claim")
             ELSE Success([L EXCEPT
                              !.pendingRewards[sender] = 0,
                              !.userProfiles[sender].rewardBalance =
                                  @ + amount], 0)

\* withdrawRewards
withdrawRewards(L, sender, amount) ==
    IF ~L.userProfiles[sender].isActive THEN Revert(L, "User not active")
    ELSE IF ~(L.userProfiles[sender].rewardBalance >= amount)
    THEN Revert(L, "Insufficient reward balance")
    ELSE Success([L EXCEPT !.userProfiles[sender].rewardBalance =
                              @ - amount], 0)

\* estimateQtoReward
estimateQtoReward(L, user, interactionType, aiSignificance) ==
    tierMultipliedReward(L.userProfiles[user].trustScore, interactionType,
                         aiSignificance)

\* QoneqtRewardService.formatQtoAmount: the whole tokens and the fraction
\* without its trailing zeros (written here as the digits that remain and
\* their number); "0" stands for the literal the service returns on failure
formatQtoAmount(amount) ==
    LET wholePart == amount \div UnitsPerToken
        fractionalPart == amount % UnitsPerToken
        Pow10(k) == CASE k = 0 -> 1 [] k = 1 -> 10 [] k = 2 -> 100
                      [] k = 3 -> 1000 [] k = 4 -> 10000 [] k = 5 -> 100000
                      [] k = 6 -> 1000000 [] k = 7 -> 10000000
        zeros == CHOOSE k \in 0..6 :
                    /\ fractionalPart % Pow10(k) = 0
                    /\ fractionalPart % Pow10(k + 1) # 0
    IN  IF amount = 0 THEN "0"
        ELSE IF fractionalPart = 0
        THEN [whole |-> wholePart, fraction |-> 0, places |-> 0]
        ELSE [whole |-> wholePart,
              fraction |-> fractionalPart \div Pow10(zeros),
              places |-> 7 - zeros]

\* the arguments of a transaction, for the record kept in lastTx
Args(sender, user, interactionType, aiSignificance, amount) ==
    [sender |-> sender, user |-> user, interactionType |-> interactionType,
     aiSignificance |-> aiSignificance, amount |-> amount,
     qtoAwarded |-> "0"]

\* no transaction yet
NoTx ==
    [op |-> "none", ok |-> FALSE, error |-> "", sender |-> This,
     user |-> This, interactionType |-> "LIKE", aiSignificance |-> 0,
     amount |-> 0, paid |-> 0, qtoAwarded |-> "0"]

\* the ledger while the gateway is observed: nobody has registered and the
\* treasury holds 100 tokens (the gateway reads the ledger through the
\* reputation adapter only, see account)
InitLedgerVars ==
    /\ userProfiles = [a \in Addresses |-> EmptyProfile]
    /\ qtoBalances = [a \in Addresses \cup {This} |->
                         IF a = This THEN 100 * UnitsPerToken ELSE 0]
    /\ qtoTotalSupply = 100 * UnitsPerToken
    /\ hasUserRatedUser = {}
    /\ pendingRewards = [a \in Addresses |-> 0]
    /\ lastTx = NoTx
    /\ ledgerOps = 0

NoBody == [isArray |-> FALSE, requests |-> << >>]

InitBatchVars ==
    /\ body = NoBody
    /\ results = << >>
    /\ cursor = 0
    /\ sent = << >>
    /\ downstream = << >>
    /\ reputationCalls = 0

Step(next) ==
    /\ interceptedCalls' = (CallId :> next.call)
    /\ result' = next.result
    /\ pc' = next.pc
    /\ forwarded' = IF next.forward
                    THEN [forwarded EXCEPT !.intercept = @ + 1]
                    ELSE forwarded

Init ==
    /\ config \in Configs
    /\ request = NoRequest
    /\ account = NoProfile
    /\ interceptedCalls = << >>
    /\ pc = "idle"
    /\ result = NoResponse
    /\ classified = NoVerdict
    /\ assessed = NoAssessment
    /\ classifierCalls = 0
    /\ forwarded = [intercept |-> 0, approve |-> 0]
    /\ approveInFlight = 0
    /\ approveCalls = 0
    /\ lastApprove = [id |-> "none", outcome |-> "none"]
    /\ now = 0
    /\ InitBatchVars
    /\ InitLedgerVars
    /\ InitPipelineVars

\* interceptRPCCall, lines 17-70 (and on to 168 when no I/O is awaited)
Receive(req, profile) ==
    /\ pc = "idle"
    /\ UNCHANGED <<batchVars, ledgerVars, pipelineVars>>
    /\ profile = NoProfile \/ extractUserAddress(req)
    /\ request' = req
    /\ account' = profile
    /\ UNCHANGED <<config, assessed, approveInFlight, approveCalls,
                   lastApprove, now>>
    /\ IF ~req.wellFormed
       THEN /\ result' = InvalidRequestResponse
            /\ pc' = "invalid"
            /\ UNCHANGED <<interceptedCalls, classified, classifierCalls,
                           forwarded>>
       ELSE LET call == newInterceptedCall(req, now)
            IN  IF ~config.aiValidationEnabled
                THEN /\ Step([call |-> call, result |-> NoResponse,
                              pc |-> "forward", forward |-> TRUE])
                     /\ UNCHANGED <<classified, classifierCalls>>
                ELSE IF isReadOnlyMethod(req.method)
                THEN /\ classified' = ReadOnlyVerdict
                     /\ Step(afterClassify(config, call, ReadOnlyVerdict))
                     /\ UNCHANGED classifierCalls
                ELSE /\ Step([call |-> call, result |-> NoResponse,
                              pc |-> "ai", forward |-> FALSE])
                     /\ classifierCalls' = classifierCalls + 1
                     /\ UNCHANGED classified

\* interceptRPCCall resumes at line 70 with the classifier's verdict
AIReturn(reply) ==
    /\ pc = "ai"
    /\ UNCHANGED <<batchVars, ledgerVars, pipelineVars>>
    /\ LET verdict == analyzeWithAI(reply, request)
       IN  /\ classified' = verdict
           /\ Step(afterClassify(config, interceptedCalls[CallId], verdict))
    /\ now' = now + 1
    /\ UNCHANGED <<config, request, account, assessed, classifierCalls,
                   approveInFlight, approveCalls, lastApprove>>

\* interceptRPCCall resumes at line 78 with the reputation verdict; reachable
\* tells whether the ledger answered getUserProfile
CommunityReturn(reachable) ==
    /\ pc = "community"
    /\ UNCHANGED <<batchVars, ledgerVars, pipelineVars>>
    /\ LET profile == IF reachable THEN account ELSE NoProfile
           verdict == validateTransactionWithCommunity(profile, request.large)
       IN  /\ assessed' = verdict
           /\ Step(admit(config, combine(interceptedCalls[CallId], verdict)))
    /\ now' = now + 1
    /\ UNCHANGED <<config, request, account, classified, classifierCalls,
                   approveInFlight, approveCalls, lastApprove>>

\* interceptRPCCall resumes at line 168 with the response of forwardRequest
ForwardReturn(outcome) ==
    /\ pc = "forward"
    /\ UNCHANGED <<batchVars, ledgerVars, pipelineVars>>
    /\ LET response == forwardRequest(outcome)
       IN  /\ interceptedCalls' =
                 (CallId :> completed(interceptedCalls[CallId], response,
                                      now + 1))
           /\ result' = response
    /\ pc' = "done"
    /\ now' = now + 1
    /\ UNCHANGED <<config, request, account, classified, assessed,
                   classifierCalls, forwarded, approveInFlight, approveCalls,
                   lastApprove>>

\* approveCall, lines 221-231: the lookup, the guard and the call of
\* forwardRequest
ApproveCall(id) ==
    /\ approveCalls < MaxApprovals
    /\ UNCHANGED <<batchVars, ledgerVars, pipelineVars>>
    /\ approveCalls' = approveCalls + 1
    /\ IF canApprove(id)
       THEN /\ forwarded' = [forwarded EXCEPT !.approve = @ + 1]
            /\ approveInFlight' = approveInFlight + 1
            /\ lastApprove' = [id |-> id, outcome |-> "forwarding"]
       ELSE /\ lastApprove' = [id |-> id, outcome |-> "null"]
            /\ UNCHANGED <<forwarded, approveInFlight>>
    /\ UNCHANGED <<config, request, account, interceptedCalls, pc, result,
                   classified, assessed, classifierCalls, now>>

\* approveCall resumes at line 231 with the response of forwardRequest
ApproveReturn(outcome) ==
    /\ approveInFlight > 0
    /\ UNCHANGED <<batchVars, ledgerVars, pipelineVars>>
    /\ approveInFlight' = approveInFlight - 1
    /\ interceptedCalls' =
          (CallId :> completed(interceptedCalls[CallId],
                               forwardRequest(outcome), now + 1))
    /\ now' = now + 1
    /\ UNCHANGED <<config, request, account, pc, result, classified, assessed,
                   classifierCalls, forwarded, approveCalls, lastApprove>>

Next ==
    \/ \E req \in Requests, profile \in Profiles : Receive(req, profile)
    \/ \E reply \in ClassifierReplies : AIReturn(reply)
    \/ \E reachable \in BOOLEAN : CommunityReturn(reachable)
    \/ \E outcome \in DownstreamOutcomes : ForwardReturn(outcome)
    \/ \E id \in {CallId, UnknownId} : ApproveCall(id)
    \/ \E outcome \in DownstreamOutcomes : ApproveReturn(outcome)

Spec == Init /\ [][Next]_vars

\* ----------------------------------------------------- batched requests
\* One POST / whose body is a request object or an array of requests.  The
\* loop of interceptRPCCall takes the requests one after the other; an action
\* is again the code between two awaits that wait for I/O, so it can finish
\* one request and start the next.  The i-th call of the body is stored under
\* the i-th generated id, written i.
MaxBatch == 3

\* the id of a response to a request without an id (null)
NullId == 0

RequestKinds == {"read", "send", "noJsonrpc", "noMethod", "noId", "null"}

\* The i-th element of a body: a read-only request, a transaction with a
\* sender, an object without jsonrpc, without method or without id, or the
\* JSON value null.  The client numbers its requests, so the id is i.
BatchRequest(i, kind) ==
    [shape |-> IF kind = "null" THEN "null" ELSE "object",
     jsonrpc |-> kind \in {"read", "send", "noMethod", "noId"},
     hasMethod |-> kind \in {"read", "send", "noJsonrpc", "noId"},
     hasId |-> kind \in {"read", "send", "noJsonrpc", "noMethod"},
     id |-> IF kind \in {"noId", "null"} THEN NullId ELSE i,
     method |-> IF kind = "read" THEN "eth_blockNumber"
                ELSE IF kind \in {"noMethod", "null"} THEN "none"
                ELSE "eth_sendTransaction",
     sender |-> kind \in {"send", "noJsonrpc", "noId"},
     large |-> FALSE]

\* express.json hands over an object or an array; the elements of an array
\* are any JSON values
Bodies ==
    {[isArray |-> FALSE, requests |-> <<BatchRequest(1, kind)>>] :
        kind \in RequestKinds \ {"null"}}
    \cup UNION {{[isArray |-> TRUE,
                  requests |-> [i \in 1..n |-> BatchRequest(i, kinds[i])]] :
                    kinds \in [1..n -> RequestKinds]} : n \in 0..MaxBatch}

\* the configurations, classifier answers and profiles the requests of a
\* body are tried with; a classifier error rejects eth_sendTransaction
BatchConfigs == {cfg \in Configs : ~cfg.autoApprove.highTrustUsersOnly}

BatchReplies ==
    {ClassifierError,
     [error |-> FALSE, risk |-> "LOW", proceed |-> "true"],
     [error |-> FALSE, risk |-> "MEDIUM", proceed |-> "true"]}

BatchProfiles ==
    {NoProfile,
     [found |-> TRUE, trustScore |-> 500, reportCount |-> 0,
      isActive |-> TRUE]}

\* interceptRPCCall, line 26
isMalformed(req) == ~req.jsonrpc \/ ~req.hasMethod \/ ~req.hasId

\* interceptRPCCall, lines 25-37: "ok" when every request passes, "invalid"
\* when the first request that does not pass is answered -32600, "throws"
\* when reading a field of it throws (the element is null)
validateFormat(reqs) ==
    LET bad == {i \in 1..Len(reqs) : isMalformed(reqs[i])}
    IN  IF bad = {} THEN "ok"
        ELSE LET first == CHOOSE i \in bad : \A j \in bad : i <= j
             IN  IF reqs[first].shape = "null" THEN "throws" ELSE "invalid"

firstMalformed(reqs) ==
    CHOOSE i \in 1..Len(reqs) :
        /\ isMalformed(reqs[i])
        /\ \A j \in 1..(i - 1) : ~isMalformed(reqs[j])

InternalErrorResponse ==
    [kind |-> "error", code |-> -32603,
     message |-> "Internal error in interceptor"]

\* an RPCResponse with the id it carries
withId(id, response) == [id |-> id, response |-> response]

\* the response a JSON-RPC endpoint gives to a forwarded request: response.data
\* answers the request it was sent, the -32603 of forwardRequest copies
\* request.id
forwardResponse(req, outcome) == withId(req.id, forwardRequest(outcome))

\* interceptRPCCall, line 200: res.json(isArray ? results : results[0])
sendJson(b, res) ==
    IF b.isArray
    THEN [status |-> 200, shape |-> "array", items |-> res]
    ELSE [status |-> 200, shape |-> "object", items |-> <<res[1]>>]

\* the state of the handler between two steps
HandlerState ==
    [pc |-> pc, cursor |-> cursor, store |-> interceptedCalls,
     results |-> results, downstream |-> downstream,
     classifierCalls |-> classifierCalls,
     reputationCalls |-> reputationCalls, sent |-> sent]

Apply(h) ==
    /\ pc' = h.pc
    /\ cursor' = h.cursor
    /\ interceptedCalls' = h.store
    /\ results' = h.results
    /\ downstream' = h.downstream
    /\ classifierCalls' = h.classifierCalls
    /\ reputationCalls' = h.reputationCalls
    /\ sent' = h.sent

\* interceptRPCCall, lines 166-168: forwardRequest is called and awaited
issueForward(h, req) ==
    [h EXCEPT !.pc = "forward", !.downstream = Append(@, req.id)]

RECURSIVE startRequest(_, _, _, _)
RECURSIVE proceed(_, _, _, _)

pushResult_prepend(cfg, b, h, response) ==
    startRequest(cfg, b, h.cursor + 1,
                 [h EXCEPT !.results = <<response>> \o @])

\* results.push(response) and the next turn of the loop
pushResult(cfg, b, h, response) ==
    startRequest(cfg, b, h.cursor + 1,
                 [h EXCEPT !.results = Append(@, response)])

\* interceptRPCCall, lines 41-70 for the i-th request, and line 200 after the
\* last one: the call is stored and the handler runs to its first await
startRequest(cfg, b, i, h) ==
    IF i > Len(b.requests)
    THEN [h EXCEPT !.pc = "responded", !.cursor = i,
                   !.sent = Append(@, sendJson(b, h.results))]
    ELSE LET req == b.requests[i]
             call == newInterceptedCall(req, now)
             h1 == [h EXCEPT !.cursor = i, !.store = Append(@, call)]
         IN  IF ~cfg.aiValidationEnabled THEN issueForward(h1, req)
             ELSE IF isReadOnlyMethod(req.method)
             THEN proceed(cfg, b, h1,
                          afterClassify(cfg, call, ReadOnlyVerdict))
             ELSE [h1 EXCEPT !.pc = "ai", !.classifierCalls = @ + 1]

\* interceptRPCCall, lines 74-168, with the outcome of afterClassify or admit
\* for the request at the cursor: await the reputation adapter, push the
\* rejection or the hold and go on with the next request, or forward
proceed(cfg, b, h, next) ==
    LET req == b.requests[h.cursor]
        h1 == [h EXCEPT !.store[h.cursor] = next.call]
    IN  IF next.pc = "done"
        THEN pushResult(cfg, b, h1, withId(req.id, next.result))
        ELSE IF next.pc = "community"
        THEN [h1 EXCEPT !.pc = "community", !.reputationCalls = @ + 1]
        ELSE issueForward(h1, req)

singleVars == <<request, account, result, classified, assessed, forwarded,
                approveInFlight, approveCalls, lastApprove>>

InitBatch ==
    /\ config \in BatchConfigs
    /\ request = NoRequest
    /\ account = NoProfile
    /\ interceptedCalls = << >>
    /\ pc = "idle"
    /\ result = NoResponse
    /\ classified = NoVerdict
    /\ assessed = NoAssessment
    /\ classifierCalls = 0
    /\ forwarded = [intercept |-> 0, approve |-> 0]
    /\ approveInFlight = 0
    /\ approveCalls = 0
    /\ lastApprove = [id |-> "none", outcome |-> "none"]
    /\ now = 0
    /\ InitBatchVars
    /\ InitLedgerVars
    /\ InitPipelineVars

\* interceptRPCCall, lines 17-70: the format check of every request, then the
\* first request up to its first await
Post(b) ==
    /\ pc = "idle"
    /\ body' = b
    /\ LET verdict == validateFormat(b.requests)
       IN  IF verdict = "ok"
           THEN Apply(startRequest(config, b, 1, HandlerState))
           ELSE /\ pc' = "responded"
                /\ sent' =
                     IF verdict = "invalid"
                     THEN <<[status |-> 400, shape |-> "object",
                             items |-> <<withId(
                                 b.requests[firstMalformed(b.requests)].id,
                                 InvalidRequestResponse)>>]>>
                     ELSE <<[status |-> 500, shape |-> "object",
                             items |-> <<withId(NullId,
                                                InternalErrorResponse)>>]>>
                /\ UNCHANGED <<cursor, interceptedCalls, results, downstream,
                               classifierCalls, reputationCalls>>
    /\ UNCHANGED <<config, now, singleVars, ledgerVars, pipelineVars>>

\* the handler resumes at line 70 with the classifier's verdict
BatchAIReturn(reply) ==
    /\ pc = "ai"
    /\ LET req == body.requests[cursor]
           verdict == analyzeWithAI(reply, req)
       IN  Apply(proceed(config, body, HandlerState,
                         afterClassify(config, interceptedCalls[cursor],
                                       verdict)))
    /\ UNCHANGED <<config, now, body, singleVars, ledgerVars, pipelineVars>>

\* the handler resumes at line 78 with the reputation verdict
BatchCommunityReturn(profile) ==
    /\ pc = "community"
    /\ LET req == body.requests[cursor]
           verdict == validateTransactionWithCommunity(profile, req.large)
       IN  Apply(proceed(config, body, HandlerState,
                         admit(config,
                               combine(interceptedCalls[cursor], verdict))))
    /\ UNCHANGED <<config, now, body, singleVars, ledgerVars, pipelineVars>>

\* the handler resumes at line 168 with the response of forwardRequest
BatchForwardReturn(outcome) ==
    /\ pc = "forward"
    /\ LET req == body.requests[cursor]
           response == forwardRequest(outcome)
           h1 == [HandlerState EXCEPT
                     !.store[cursor] =
                         completed(interceptedCalls[cursor], response, now)]
       IN  Apply(pushResult(config, body, h1, forwardResponse(req, outcome)))
    /\ UNCHANGED <<config, now, body, singleVars, ledgerVars, pipelineVars>>

NextBatch ==
    \/ \E b \in Bodies : Post(b)
    \/ \E reply \in BatchReplies : BatchAIReturn(reply)
    \/ \E profile \in BatchProfiles : BatchCommunityReturn(profile)
    \/ \E outcome \in DownstreamOutcomes : BatchForwardReturn(outcome)

SpecBatch == InitBatch /\ [][NextBatch]_vars

\* the classifier call (15 s timeout), the reputation lookup and the forward
\* (30 s timeout) each return in the end
FairBatch ==
    /\ SpecBatch
    /\ WF_vars(\E reply \in BatchReplies : BatchAIReturn(reply))
    /\ WF_vars(\E profile \in BatchProfiles : BatchCommunityReturn(profile))
    /\ WF_vars(\E outcome \in DownstreamOutcomes : BatchForwardReturn(outcome))

\* ---------------------------------------------------------- the call store
\* The interceptedCalls map over many calls.  Only the lines that write the
\* map and the two functions that read it matter here, so a call is followed
\* no further than its insertion; the requests are all alike and arrive in
\* different milliseconds.
MaxStored == 102

HistoryLimit == 100

\* the i-th call of the process is stored under the i-th generated id, i
StoredRequest ==
    [method |-> "eth_blockNumber", sender |-> FALSE, large |-> FALSE,
     wellFormed |-> TRUE]

\* getInterceptedCall, lines 217-219: interceptedCalls.get(callId), TRUE when
\* it returns a record and FALSE when it returns undefined
getInterceptedCall(callId) == callId \in DOMAIN interceptedCalls

\* getCallHistory, lines 256-260: the ids of the calls, latest first, cut
\* after the first HistoryLimit
getCallHistory ==
    LET ids == [i \in 1..Len(interceptedCalls) |-> i]
        latestFirst ==
            SortSeq(ids, LAMBDA a, b : interceptedCalls[a].timestamp
                                         > interceptedCalls[b].timestamp)
    IN  SubSeq(latestFirst, 1,
               IF Len(latestFirst) < HistoryLimit
               THEN Len(latestFirst) ELSE HistoryLimit)

\* interceptRPCCall, lines 42-57: a call is created and put into the map
StoreCall ==
    /\ Len(interceptedCalls) < MaxStored
    /\ interceptedCalls' =
          Append(interceptedCalls, newInterceptedCall(StoredRequest, now))
    /\ now' = now + 1
    /\ UNCHANGED <<config, pc, classifierCalls, singleVars, batchVars,
                   ledgerVars, pipelineVars>>

NextStore == StoreCall

SpecStore == InitBatch /\ [][NextStore]_vars

\* ------------------------------------------------------------------
\* The ledger contract on its own: transactions sent by A and B.
\* ------------------------------------------------------------------
MaxLedgerOps == 3

\* the configuration when no environment variable is set
DefaultConfig ==
    [aiValidationEnabled |-> TRUE, communityValidationEnabled |-> TRUE,
     autoApprove |-> [enabled |-> FALSE, lowRiskOnly |-> TRUE,
                      highTrustUsersOnly |-> TRUE]]

\* the profile of an account that registered and recorded n posts
PostingProfile(n) == updateTrustScore([NewProfile EXCEPT !.posts = n])

\* the profiles account A starts from: never registered, just registered,
\* reported once, and after 179 and 180 posts (trust scores 995 and 1000)
LedgerProfiles ==
    {EmptyProfile, NewProfile,
     updateTrustScore([NewProfile EXCEPT !.reportsReceived = 1]),
     PostingProfile(179), PostingProfile(180)}

\* what is left in the treasury: 5 * 10^15 wei, or 100 tokens; the supply
\* counted is that of the holders modelled, who hold nothing else at first
Treasuries == {50000, 100 * UnitsPerToken}

\* the interaction types and significances the transactions draw from
RewardedTypes == {"POST", "MARKETPLACE_PURCHASE"}
Significances == {0, 900, 1000, 1010}

\* the batches sent: empty, one element, two elements, and one whose second
\* element has a significance above 1000
BatchItem(sig) ==
    [user |-> "A", interactionType |-> "POST", aiSignificance |-> sig]

Batches ==
    {<< >>, <<BatchItem(900)>>, <<BatchItem(900), BatchItem(1000)>>,
     <<BatchItem(900), BatchItem(1010)>>}

CurrentLedger ==
    Ledger(userProfiles, qtoBalances, qtoTotalSupply, hasUserRatedUser,
           pendingRewards)

InitLedger ==
    /\ config = DefaultConfig
    /\ request = NoRequest
    /\ account = NoProfile
    /\ interceptedCalls = << >>
    /\ pc = "idle"
    /\ result = NoResponse
    /\ classified = NoVerdict
    /\ assessed = NoAssessment
    /\ classifierCalls = 0
    /\ forwarded = [intercept |-> 0, approve |-> 0]
    /\ approveInFlight = 0
    /\ approveCalls = 0
    /\ lastApprove = [id |-> "none", outcome |-> "none"]
    /\ now = 0
    /\ InitBatchVars
    /\ \E profile \in LedgerProfiles :
          userProfiles = [a \in Addresses |->
                             IF a = "A" THEN profile ELSE NewProfile]
    /\ \E treasury \in Treasuries :
          /\ qtoBalances = [a \in Addresses \cup {This} |->
                               IF a = This THEN treasury ELSE 0]
          /\ qtoTotalSupply = treasury
    /\ hasUserRatedUser = {}
    /\ pendingRewards = [a \in Addresses |-> 0]
    /\ lastTx = NoTx
    /\ ledgerOps = 0
    /\ InitPipelineVars

\* what transfers and withdrawals move (4 * 10^15 wei), what a community
\* reward awards (tokens) and what withdrawRewards asks for
TransferAmount == 40000
CommunityRewardAmount == 1
WithdrawAmounts == {0, 1}

\* one transaction: its effect if it succeeds, none if it reverts
Transact(op, tx, args) ==
    /\ ledgerOps' = ledgerOps + 1
    /\ userProfiles' = tx.ledger.userProfiles
    /\ qtoBalances' = tx.ledger.qtoBalances
    /\ qtoTotalSupply' = tx.ledger.qtoTotalSupply
    /\ hasUserRatedUser' = tx.ledger.hasUserRatedUser
    /\ pendingRewards' = tx.ledger.pendingRewards
    /\ lastTx' = [op |-> op, ok |-> tx.ok, error |-> tx.error,
                  sender |-> args.sender, user |-> args.user,
                  interactionType |-> args.interactionType,
                  aiSignificance |-> args.aiSignificance,
                  amount |-> args.amount, paid |-> tx.paid,
                  qtoAwarded |-> args.qtoAwarded]
    /\ UNCHANGED <<config, interceptedCalls, pc, classifierCalls, now,
                   singleVars, batchVars, pipelineVars>>

RegisterUser ==
    /\ ledgerOps < MaxLedgerOps
    /\ Transact("registerUser", registerUser(CurrentLedger, "A"),
                Args("A", "A", "LIKE", 0, 0))

RecordLike ==
    /\ ledgerOps < MaxLedgerOps
    /\ Transact("recordLike", recordLike(CurrentLedger, "A"),
                Args("A", "A", "LIKE", 0, 0))

RecordComment ==
    /\ ledgerOps < MaxLedgerOps
    /\ Transact("recordComment", recordComment(CurrentLedger, "A"),
                Args("A", "A", "LIKE", 0, 0))

RecordPost ==
    /\ ledgerOps < MaxLedgerOps
    /\ Transact("recordPost", recordPost(CurrentLedger, "A"),
                Args("A", "A", "LIKE", 0, 0))

RecordHelpfulResponse(sender, helper) ==
    /\ ledgerOps < MaxLedgerOps
    /\ Transact("recordHelpfulResponse",
                recordHelpfulResponse(CurrentLedger, sender, helper),
                Args(sender, helper, "LIKE", 0, 0))

ReportUser ==
    /\ ledgerOps < MaxLedgerOps
    /\ Transact("reportUser", reportUser(CurrentLedger, "B", "A"),
                Args("B", "A", "LIKE", 0, 0))

RecordValidation(successful) ==
    /\ ledgerOps < MaxLedgerOps
    /\ Transact("recordValidation",
                recordValidation(CurrentLedger, "A", "A", successful),
                Args("A", "A", "LIKE", 0, 0))

ProcessQoneqtInteraction(interactionType, aiSignificance) ==
    /\ ledgerOps < MaxLedgerOps
    /\ Transact("processQoneqtInteraction",
                processQoneqtInteraction(CurrentLedger, "B", "A",
                                         interactionType, aiSignificance),
                Args("B", "A", interactionType, aiSignificance, 0))

BatchProcessQoneqtInteractions(items) ==
    /\ ledgerOps < MaxLedgerOps
    /\ Transact("batchProcessQoneqtInteractions",
                batchProcessQoneqtInteractions(CurrentLedger, "B", items),
                Args("B", "A", "POST", 0, 0))

QtoTransfer(sender, to) ==
    /\ ledgerOps < MaxLedgerOps
    /\ Transact("qtoTransfer",
                qtoTransfer(CurrentLedger, sender, to, TransferAmount),
                Args(sender, to, "LIKE", 0, TransferAmount))

FundContractQto ==
    /\ ledgerOps < MaxLedgerOps
    /\ Transact("fundContractQto",
                fundContractQto(CurrentLedger, "A", TransferAmount),
                Args("A", This, "LIKE", 0, TransferAmount))

MintQtoToContract ==
    /\ ledgerOps < MaxLedgerOps
    /\ Transact("mintQtoToContract",
                mintQtoToContract(CurrentLedger, TransferAmount),
                Args("A", This, "LIKE", 0, TransferAmount))

EmergencyWithdrawQto ==
    /\ ledgerOps < MaxLedgerOps
    /\ Transact("emergencyWithdrawQto",
                emergencyWithdrawQto(CurrentLedger, "A", TransferAmount),
                Args(This, "A", "LIKE", 0, TransferAmount))

AwardCommunityReward ==
    /\ ledgerOps < MaxLedgerOps
    /\ Transact("awardCommunityReward",
                awardCommunityReward(CurrentLedger, "B", "A",
                                     CommunityRewardAmount),
                Args("B", "A", "LIKE", 0, CommunityRewardAmount))

ClaimRewards ==
    /\ ledgerOps < MaxLedgerOps
    /\ Transact("claimRewards", claimRewards(CurrentLedger, "A"),
                Args("A", "A", "LIKE", 0, 0))

WithdrawRewards(amount) ==
    /\ ledgerOps < MaxLedgerOps
    /\ Transact("withdrawRewards",
                withdrawRewards(CurrentLedger, "A", amount),
                Args("A", "A", "LIKE", 0, amount))

\* QoneqtRewardService.processInteractionReward for account A, sent by the
\* service's signer B: the significance analysis, the reward transaction,
\* then the estimate that is reported as qtoAwarded
ProcessInteractionReward(isGenuine, interactionType, aiSignificance) ==
    /\ ledgerOps < MaxLedgerOps
    /\ LET tx == IF isGenuine
                 THEN processQoneqtInteraction(CurrentLedger, "B", "A",
                                               interactionType,
                                               aiSignificance)
                 ELSE Revert(CurrentLedger, "INAUTHENTIC_INTERACTION")
           estimatedReward == estimateQtoReward(tx.ledger, "A",
                                                interactionType,
                                                aiSignificance)
       IN  Transact("processInteractionReward", tx,
                    [Args("B", "A", interactionType, aiSignificance, 0)
                        EXCEPT !.qtoAwarded =
                            IF tx.ok THEN formatQtoAmount(estimatedReward)
                            ELSE "0"])

NextLedger ==
    \/ RegisterUser
    \/ RecordLike
    \/ RecordComment
    \/ RecordPost
    \/ \E sender \in Addresses, helper \in Addresses :
          RecordHelpfulResponse(sender, helper)
    \/ ReportUser
    \/ \E successful \in BOOLEAN : RecordValidation(successful)
    \/ \E interactionType \in RewardedTypes, aiSignificance \in Significances :
          ProcessQoneqtInteraction(interactionType, aiSignificance)
    \/ \E items \in Batches : BatchProcessQoneqtInteractions(items)
    \/ \E sender \in Addresses, to \in (Addresses \cup {ZeroAddress}) :
          QtoTransfer(sender, to)
    \/ FundContractQto
    \/ EmergencyWithdrawQto
    \/ MintQtoToContract
    \/ AwardCommunityReward
    \/ ClaimRewards
    \/ \E amount \in WithdrawAmounts : WithdrawRewards(amount)
    \/ \E isGenuine \in BOOLEAN, interactionType \in RewardedTypes,
          aiSignificance \in Significances :
          ProcessInteractionReward(isGenuine, interactionType,
                                   aiSignificance)

SpecLedger == InitLedger /\ [][NextLedger]_vars

\* ------------------------------------------------------------------
\* The reputation adapter on its own: validateTransactionWithCommunity
\* applied to a profile and the value field of the transaction.
\* ------------------------------------------------------------------

\* transactionData.value: absent, at most 10 ether, above 10 ether, or
\* something ethers.getBigInt cannot read
CallValues == {"none", "small", "large", "malformed"}

\* what getUserProfile can return: null, or the profile the contract holds
AssessProfiles ==
    [found : {TRUE}, trustScore : {0, 99, 100, 499, 500, 999, 1000},
     reportCount : {0, MaxReportCount, MaxReportCount + 1},
     isActive : BOOLEAN]
    \cup {NoProfile}

\* validateTransactionWithCommunity with its try/catch: reading an
\* unreadable value throws, and the catch block answers
communityValidationOf(profile, value) ==
    IF ~profile.found THEN validateTransactionWithCommunity(profile, FALSE)
    ELSE IF value = "malformed"
    THEN [present |-> TRUE, isValid |-> FALSE, trustLevel |-> "low",
          trustScore |-> 0, warnings |-> 1]
    ELSE validateTransactionWithCommunity(profile, value = "large")

Assess(profile, value) ==
    /\ pc = "idle"
    /\ account' = profile
    /\ request' = [method |-> "eth_sendTransaction", sender |-> TRUE,
                   large |-> (value = "large"), wellFormed |-> TRUE,
                   value |-> value]
    /\ assessed' = communityValidationOf(profile, value)
    /\ UNCHANGED <<config, interceptedCalls, pc, classifierCalls, now,
                   result, classified, forwarded, approveInFlight,
                   approveCalls, lastApprove, batchVars, ledgerVars,
                   pipelineVars>>

NextAssess ==
    \E profile \in AssessProfiles, value \in CallValues :
        Assess(profile, value)

SpecAssess == Init /\ [][NextAssess]_vars

\* ------------------------------------------------------------------
\* The validation pipeline on its own: one validateTransaction of a
\* well-formed request under every configuration and every options argument.
\* ------------------------------------------------------------------

\* the address of config.privateKey, which signs the adapter's transactions
Wallet == "B"

\* recordTransactionAttempt -> updateInteraction (part_018, 258-299): a
\* sender whose getTrustScoreForValidation is 0 counts as not registered and
\* registerUser is sent, which registers the signing wallet; the contract
\* has no updateInteraction function, so that call fails and changes nothing.
\* Every error is caught.
recordTransactionAttempt(L, profile) ==
    IF profile.found /\ ~(profile.isActive /\ profile.trustScore > 0)
    THEN [sent |-> TRUE, tx |-> registerUser(L, Wallet)]
    ELSE [sent |-> FALSE, tx |-> Revert(L, "")]

ValidateTransaction(req, reply, profile, opts) ==
    /\ pc = "idle"
    /\ req.wellFormed
    /\ profile = NoProfile \/ extractUserAddress(req)
    /\ LET res == validateTransaction(config, req, reply, profile, opts)
           ai == config.aiValidationEnabled /\ ~opts.skipAI
           community == /\ config.communityValidationEnabled
                        /\ ~opts.skipCommunity
                        /\ extractUserAddress(req)
           attempt == recordTransactionAttempt(CurrentLedger, profile)
       IN  /\ pipelineResult' = res
           /\ classified' = IF ai THEN res.aiValidation ELSE classified
           /\ classifierCalls' =
                 IF ai /\ ~isReadOnlyMethod(req.method)
                 THEN classifierCalls + 1 ELSE classifierCalls
           /\ assessed' =
                 IF community
                 THEN validateTransactionWithCommunity(profile, req.large)
                 ELSE assessed
           /\ IF community /\ req.method = "eth_sendTransaction"
                 /\ attempt.sent
              THEN /\ userProfiles' = attempt.tx.ledger.userProfiles
                   /\ lastTx' = [NoTx EXCEPT !.op = "registerUser",
                                             !.ok = attempt.tx.ok,
                                             !.error = attempt.tx.error,
                                             !.sender = Wallet,
                                             !.user = Wallet]
                   /\ ledgerOps' = ledgerOps + 1
              ELSE UNCHANGED <<userProfiles, lastTx, ledgerOps>>
    /\ request' = req
    /\ account' = profile
    /\ options' = opts
    /\ pc' = "done"
    /\ UNCHANGED <<config, interceptedCalls, now, result, forwarded,
                   approveInFlight, approveCalls, lastApprove, batchVars,
                   qtoBalances, qtoTotalSupply, hasUserRatedUser,
                   pendingRewards>>

\* the profiles are what getUserProfile can return for the sender: null, the
\* all-zero profile of an address that never registered, or the profile of
\* a registered one
NextPipeline ==
    \E req \in Requests, reply \in ClassifierReplies,
       profile \in {p \in AssessProfiles :
                       /\ p.trustScore \in {0, 499, 500, 1000}
                       /\ p.reportCount \in {0, MaxReportCount + 1}
                       /\ (~p.found \/ p.isActive
                           \/ (p.trustScore = 0 /\ p.reportCount = 0))},
       opts \in [skipAI : BOOLEAN, skipCommunity : BOOLEAN,
                 forceManualReview : BOOLEAN] :
        ValidateTransaction(req, reply, profile, opts)

SpecPipeline == Init /\ [][NextPipeline]_vars

\* ------------------------------------------------------------ observations
Forwards == forwarded.intercept + forwarded.approve

\* what interceptRPCCall decided for the call, read off its position and the
\* response it pushed
Outcome ==
    IF pc \in {"idle", "ai", "community"} THEN "undecided"
    ELSE IF pc = "invalid" THEN "invalid"
    ELSE IF result = RejectedResponse THEN "rejected"
    ELSE IF result = PendingResponse THEN "held"
    ELSE "forwarded"

StatusOf(id) == IF stored(id) THEN interceptedCalls[id].status ELSE "absent"

\* ------------------------------------------------------------------ claims

\* C1: with validation enabled, the request reaches the downstream endpoint
\* only after the admission decision of the call has been computed and is an
\* approval; in particular an approveCall on a call that is still in flight
\* forwards nothing and a rejected call has never been forwarded.
C1_ForwardedOnlyAfterApproval ==
    config.aiValidationEnabled
        => (Forwards > 0 => Outcome \in {"held", "forwarded"})

\* C2: the first approveCall on a call that was approved but held for manual
\* review (the client got -32002) forwards the original request.
C2_HeldCallCanBeApproved ==
    [][(/\ Outcome = "held"
        /\ approveCalls = 0
        /\ approveCalls' = 1
        /\ lastApprove'.id = CallId)
       => (/\ lastApprove'.outcome = "forwarding"
           /\ forwarded'.approve = forwarded.approve + 1)]_vars

\* C3: approveCall on an id that is not stored or whose call is not in status
\* 'pending' returns the no-op result, forwards nothing and leaves the call's
\* record (status, response, processingTimeMs) unchanged.
C3_ApproveNonPendingIsNoop ==
    [][(/\ approveCalls' = approveCalls + 1
        /\ StatusOf(lastApprove'.id) # "pending")
       => (/\ lastApprove'.outcome = "null"
           /\ UNCHANGED <<interceptedCalls, forwarded, approveInFlight,
                          result, pc>>)]_vars

\* a second approveCall, made after the first one has completed the call,
\* was answered with the no-op result
C3_Witness ==
    /\ approveCalls = 2
    /\ approveInFlight = 0
    /\ forwarded.approve = 1
    /\ lastApprove = [id |-> CallId, outcome |-> "null"]
    /\ StatusOf(CallId) = "completed"

\* C4: over any interleaving of interceptRPCCall with approveCall invocations
\* on the call's id, the request is forwarded downstream at most once.
C4_ForwardedAtMostOnce == Forwards <= 1

\* C5: when forwarding fails (network error or timeout) the call's status is
\* 'failed', with the error attached to its response.
C5_ForwardFailureMarksFailed ==
    (stored(CallId) /\ interceptedCalls[CallId].response = ForwardFailedResponse)
        => interceptedCalls[CallId].status = "failed"

\* every reputation verdict the combinator can be given, and its absence
CommunityVerdicts ==
    [present : {TRUE}, isValid : BOOLEAN,
     trustLevel : {"low", "medium", "high", "very_high"},
     trustScore : {0, 50, 100, 500, 1000},
     recommendation : {"approve", "reject", "manual_review"}]
    \cup {NoCommunity}

HighReject == classified.riskLevel = "HIGH" /\ ~classified.shouldProceed

HighProceed == classified.riskLevel = "HIGH" /\ classified.shouldProceed

FinishesCall == pc # "done" /\ pc' = "done"

\* C6: a classifier verdict HIGH with shouldProceed=false is a rejection for
\* every reputation verdict: makeDecision gives approved=false (and
\* requiresManualReview=false unless forceManualReview is set), and
\* interceptRPCCall does not forward the call, answers -32001 and leaves it
\* 'rejected' with that response when it finishes with it.
C6_HighRejectAlwaysRejected ==
    /\ [](HighReject =>
            /\ \A cv \in CommunityVerdicts :
                  /\ ~makeDecision(classified, cv, TRUE).approved
                  /\ ~makeDecision(classified, cv, FALSE).approved
                  /\ ~makeDecision(classified, cv, FALSE).requiresManualReview
            /\ forwarded.intercept = 0
            /\ pc \in {"community", "done"}
            /\ (pc = "done" => result = RejectedResponse))
    /\ [][(HighReject' /\ FinishesCall) =>
            /\ interceptedCalls'[CallId].status = "rejected"
            /\ interceptedCalls'[CallId].response = RejectedResponse]_vars

\* a HIGH/reject call of a valid sender of the highest trust level was rejected
C6_Witness ==
    /\ HighReject
    /\ pc = "done"
    /\ assessed.present /\ assessed.isValid
    /\ assessed.trustLevel = "very_high"
    /\ result = RejectedResponse
    /\ StatusOf(CallId) = "rejected"

\* C7: a call whose classifier verdict is HIGH with shouldProceed=true is
\* never forwarded on receipt, for every auto-approve configuration and
\* every reputation verdict.
C7_HighRiskNeverForwardedOnReceipt ==
    HighProceed => forwarded.intercept = 0

\* C8: with community validation enabled and a sender in the request, a call
\* whose sender gets the reputation verdict proceed=false is never forwarded
\* on receipt and is answered -32001, whatever the classifier says.
C8_InvalidSenderRejected ==
    (/\ config.communityValidationEnabled
     /\ request.wellFormed
     /\ extractUserAddress(request)
     /\ ~validateTransactionWithCommunity(account, request.large).isValid)
    => (/\ forwarded.intercept = 0
        /\ (pc = "done" => result = RejectedResponse))

\* C9: for a method of the read-only list, classify returns LOW with
\* shouldProceed=true and the external classifier has received no request,
\* whatever the parameters and the sender.
C9_ReadOnlyFastPath ==
    (/\ config.aiValidationEnabled
     /\ request.wellFormed
     /\ request.method \in ReadOnlyMethods)
    => (/\ classified.riskLevel = "LOW"
        /\ classified.shouldProceed
        /\ classifierCalls = 0)

\* a read-only call that names a sender and a large value went through
C9_Witness ==
    /\ config.aiValidationEnabled
    /\ request.method = "eth_call" /\ request.sender /\ request.large
    /\ pc = "done"
    /\ classified = ReadOnlyVerdict
    /\ result.kind = "result"

\* the verdict the fallback policy prescribes for a method
FallbackOf(method) ==
    IF method \in ReadOnlyMethods
    THEN [riskLevel |-> "LOW", shouldProceed |-> TRUE]
    ELSE IF method \in HighRiskMethods
    THEN [riskLevel |-> "HIGH", shouldProceed |-> FALSE]
    ELSE [riskLevel |-> "MEDIUM", shouldProceed |-> TRUE]

BlockedByFallback ==
    /\ request.method \in HighRiskMethods
    /\ classified.reasoning = "High-risk method blocked by fallback"

\* C10: when the classifier errors or times out, the verdict is the one the
\* fallback policy gives for the method name alone (read-only LOW/proceed,
\* high-risk HIGH/reject, otherwise MEDIUM/proceed); a high-risk method then
\* ends 'rejected' with error -32001, not forwarded by interceptRPCCall.
C10_FallbackByMethodOnly ==
    /\ [][AIReturn(ClassifierError) =>
            /\ classified'.riskLevel = FallbackOf(request.method).riskLevel
            /\ classified'.shouldProceed
                  = FallbackOf(request.method).shouldProceed]_vars
    /\ [][(AIReturn(ClassifierError) /\ request.method \in HighRiskMethods)
            => BlockedByFallback']_vars
    /\ [](BlockedByFallback =>
            /\ forwarded.intercept = 0
            /\ (pc = "done" => result = RejectedResponse))
    /\ [][(BlockedByFallback' /\ FinishesCall) =>
            interceptedCalls'[CallId].status = "rejected"]_vars

\* eth_sendTransaction met a classifier timeout and was rejected
C10_Witness ==
    /\ request.method = "eth_sendTransaction"
    /\ BlockedByFallback
    /\ pc = "done"
    /\ result = RejectedResponse
    /\ StatusOf(CallId) = "rejected"

\* the reputation lookup of the call found no account: the ledger did not
\* answer, or the sender is not registered
LookupFails ==
    CommunityReturn(FALSE) \/ (account = NoProfile /\ CommunityReturn(TRUE))

\* C11: a failure of the classifier or of the reputation lookup is no
\* exception and no internal error of the call: the classifier adapter
\* returns its fallback verdict, the reputation adapter a negative verdict
\* (isValid=false, trustLevel low, a warning) on which the call is rejected;
\* no call is ever 'failed', and -32603 is answered only as the response of a
\* forward the handler issued.
C11_AdapterFailuresAreVerdicts ==
    /\ [][AIReturn(ClassifierError) =>
            /\ classified' = fallbackValidation(request)
            /\ pc' \in {"community", "forward", "done"}
            /\ result' \in {NoResponse, RejectedResponse, PendingResponse}]_vars
    /\ [][LookupFails =>
            /\ assessed'.present /\ ~assessed'.isValid
            /\ assessed'.trustLevel = "low"
            /\ assessed'.warnings >= 1
            /\ pc' = "done"
            /\ result' = RejectedResponse
            /\ interceptedCalls'[CallId].status = "rejected"]_vars
    /\ [](StatusOf(CallId) # "failed")
    /\ [](result.code = -32603 =>
            /\ pc = "done"
            /\ forwarded.intercept = 1
            /\ result = ForwardFailedResponse)
    /\ [](pc = "done" =>
            \/ result \in {RejectedResponse, PendingResponse}
            \/ forwarded.intercept = 1)

\* a call met a classifier timeout and then an unreachable ledger, and was
\* rejected
C11_Witness ==
    /\ request.method = "personal_sign"
    /\ classified = fallbackValidation(request)
    /\ classified.reasoning = "Standard method - fallback"
    /\ assessed = [present |-> TRUE, isValid |-> FALSE, trustLevel |-> "low",
                   trustScore |-> 0, warnings |-> 1]
    /\ account.found
    /\ pc = "done"
    /\ result = RejectedResponse
    /\ StatusOf(CallId) = "rejected"

TerminalStatuses == {"rejected", "completed", "failed"}

\* C15: once the call is 'rejected', 'completed' or 'failed', no step of
\* interceptRPCCall or approveCall changes its status or its recorded
\* response.
C15_TerminalStatusIsFinal ==
    [][StatusOf(CallId) \in TerminalStatuses =>
          /\ interceptedCalls'[CallId].status = interceptedCalls[CallId].status
          /\ interceptedCalls'[CallId].response
                = interceptedCalls[CallId].response]_vars

\* the response the handler gave to the body
Responded == pc = "responded"

WellFormedBody == body # NoBody /\ validateFormat(body.requests) = "ok"

SomeRequestLacksField ==
    \E i \in 1..Len(body.requests) : isMalformed(body.requests[i])

\* C12: for a body of well-formed requests the response has the shape and
\* the order of the body: one object for one request, an array of N
\* responses for an array of N requests, the i-th with the id of the i-th
\* request, whatever the outcomes of the calls; while the loop runs, results
\* holds the responses of the requests before the cursor, in order.
C12_ResponseKeepsShapeAndOrder ==
    WellFormedBody =>
        /\ \A i \in 1..Len(results) : results[i].id = body.requests[i].id
        /\ ~Responded => Len(results) = cursor - 1 /\ sent = << >>
        /\ Responded =>
              /\ Len(sent) = 1
              /\ sent[1].status = 200
              /\ sent[1].shape = IF body.isArray THEN "array" ELSE "object"
              /\ Len(sent[1].items) = Len(body.requests)
              /\ \A i \in 1..Len(body.requests) :
                    sent[1].items[i].id = body.requests[i].id

\* an array of three requests was answered with a rejection, a hold and a
\* failed forward, in that order
C12_Witness ==
    /\ Responded
    /\ body.isArray /\ Len(body.requests) = 3
    /\ Len(sent) = 1 /\ Len(sent[1].items) = 3
    /\ sent[1].items[1] = withId(1, RejectedResponse)
    /\ sent[1].items[2] = withId(2, PendingResponse)
    /\ sent[1].items[3] = withId(3, ForwardFailedResponse)

\* C13: when a request of the body lacks jsonrpc, method or id, the body is
\* answered with the invalid-request error -32600 and no request of it
\* enters the pipeline: no call is stored, no classifier or reputation lookup
\* runs, nothing is forwarded.
C13_MalformedBodyRejected ==
    (body # NoBody /\ SomeRequestLacksField) =>
        /\ Responded
        /\ Len(sent) = 1
        /\ Len(sent[1].items) = 1
        /\ sent[1].items[1].response = InvalidRequestResponse
        /\ interceptedCalls = << >>
        /\ classifierCalls = 0
        /\ reputationCalls = 0
        /\ downstream = << >>

InPipeline == pc \in {"ai", "community", "forward"}

\* C16: when the classifier call, the reputation lookup and the forward each
\* return or time out, every body that entered the pipeline is answered,
\* once, with one response per request, and by then every call of it has
\* left 'pending'.
C16_EveryCallIsAnswered ==
    /\ InPipeline ~> Responded
    /\ [](Len(sent) <= 1)
    /\ []((Responded /\ WellFormedBody) =>
            /\ Len(sent) = 1
            /\ Len(sent[1].items) = Len(body.requests)
            /\ Len(interceptedCalls) = Len(body.requests)
            /\ \A i \in 1..Len(interceptedCalls) :
                  /\ interceptedCalls[i].status # "pending"
                  /\ interceptedCalls[i].response = sent[1].items[i].response)

\* three calls were answered: one rejected, one held, one completed
C16_Witness ==
    /\ Responded
    /\ Len(interceptedCalls) = 3
    /\ interceptedCalls[1].status = "rejected"
    /\ interceptedCalls[2].status = "validated"
    /\ interceptedCalls[3].status = "completed"
    /\ Len(sent) = 1 /\ Len(sent[1].items) = 3

\* the calls that are not among the HistoryLimit latest
Outdated ==
    {id \in 1..Len(interceptedCalls) :
        id <= Len(interceptedCalls) - HistoryLimit}

\* C14: the call store holds the 100 latest calls only: older calls are
\* evicted, getCallHistory returns at most 100 calls, and getInterceptedCall
\* on the id of a call that is not among the 100 latest finds nothing.
C14_StoreKeepsLatestOnly ==
    /\ Len(interceptedCalls) <= HistoryLimit
    /\ Len(getCallHistory) <= HistoryLimit
    /\ \A id \in Outdated : ~getInterceptedCall(id)

\* the sum of all token balances, the treasury included
TotalQto ==
    qtoBalances[This] + qtoBalances["A"] + qtoBalances["B"]

\* this step is a transaction of the given kind sent to the ledger
Sends(ops) == ledgerOps' = ledgerOps + 1 /\ lastTx'.op \in ops

\* C17: for any sequence of ledger operations (registration, likes, comments,
\* posts, helpful marks, reports, validations, significance rewards) every
\* account's trustScore is between 0 and 1000 in every reachable state.
C17_TrustScoreBounded ==
    \A a \in Addresses :
        /\ userProfiles[a].trustScore >= 0
        /\ userProfiles[a].trustScore <= MaxTrustScore

\* a post recorded by an account whose counters alone give more than 1000
C17_Witness ==
    /\ lastTx.op = "recordPost" /\ lastTx.ok
    /\ InitialTrustScore + userProfiles["A"].posts * POST_WEIGHT
           > MaxTrustScore
    /\ userProfiles["A"].reportsReceived = 0
    /\ userProfiles["A"].trustScore = MaxTrustScore

\* the three preconditions of processQoneqtInteraction hold for the
\* transaction this step sends
ValidReward ==
    /\ Sends({"processQoneqtInteraction"})
    /\ userProfiles["B"].isActive
    /\ userProfiles[lastTx'.user].isActive
    /\ lastTx'.aiSignificance <= Thousand

\* the amount that transaction has to pay
DueAmount ==
    tierMultipliedReward(userProfiles[lastTx'.user].trustScore,
                         lastTx'.interactionType, lastTx'.aiSignificance)

\* C18: every successful significance reward (processQoneqtInteraction and
\* each element of batchProcessQoneqtInteractions) takes exactly finalAmount
\* from the treasury and adds exactly finalAmount to the rewarded account, so
\* the sum of the treasury and the account balances is unchanged.
C18_RewardConservation ==
    [][(/\ Sends({"processQoneqtInteraction",
                  "batchProcessQoneqtInteractions"})
        /\ lastTx'.ok)
       => /\ qtoBalances'[This] = qtoBalances[This] - lastTx'.paid
          /\ qtoBalances'[lastTx'.user]
                 = qtoBalances[lastTx'.user] + lastTx'.paid
          /\ TotalQto' = TotalQto]_vars

\* C19: processQoneqtInteraction fails with the insufficient-treasury error
\* and changes no state whenever the treasury holds less than the amount to
\* pay, and no significance reward creates tokens.
C19_InsufficientTreasuryFails ==
    /\ [][(ValidReward /\ qtoBalances[This] < DueAmount)
          => /\ ~lastTx'.ok
             /\ lastTx'.error = "Contract insufficient QTO balance"
             /\ UNCHANGED <<userProfiles, qtoBalances,
                            hasUserRatedUser>>]_vars
    /\ [][Sends({"processQoneqtInteraction"})
          => TotalQto' = TotalQto]_vars

\* this step rewards a POST of significance 900 to the freshly registered
\* account A
FreshPostReward ==
    /\ Sends({"processQoneqtInteraction"})
    /\ lastTx'.ok
    /\ lastTx'.user = "A"
    /\ lastTx'.interactionType = "POST"
    /\ lastTx'.aiSignificance = 900
    /\ userProfiles["A"] = NewProfile

ClampedScore(profile) ==
    LET raw == InitialTrustScore
               + profile.likes * LIKE_WEIGHT
               + profile.comments * COMMENT_WEIGHT
               + profile.posts * POST_WEIGHT
               + profile.helpfulResponses * HELPFUL_WEIGHT
               + profile.validationCount * VALIDATION_WEIGHT
               - profile.reportsReceived * REPORT_PENALTY
    IN  IF raw < 0 THEN 0 ELSE IF raw > MaxTrustScore THEN MaxTrustScore
        ELSE raw

\* C21: after every recorded like, comment, post, helpful mark, validation
\* and report the account's trustScore equals clamp(0, 1000, 100 + likes*1
\* + comments*3 + posts*5 + helpfulMarks*10 + validations*2
\* - 20*reportsReceived), also when the penalty is at least the positive sum.
C21_TrustScoreIsClampedSum ==
    [][(/\ Sends({"recordLike", "recordComment", "recordPost",
                  "recordHelpfulResponse", "recordValidation", "reportUser"})
        /\ lastTx'.ok)
       => userProfiles'[lastTx'.user].trustScore
             = ClampedScore(userProfiles'[lastTx'.user])]_vars

\* the transactions that write a trustScore
ScoreWriters ==
    {"registerUser", "recordLike", "recordComment", "recordPost",
     "recordHelpfulResponse", "recordValidation", "reportUser",
     "processQoneqtInteraction", "batchProcessQoneqtInteractions"}

\* C22: each registered account's trustScore equals the recomputation
\* function (_updateTrustScore) applied to its current counters: no operation
\* (registration, significance reward or any other) sets it otherwise.
C22_TrustScoreIsFunctionOfCounters ==
    [][(/\ Sends(ScoreWriters)
        /\ lastTx'.ok
        /\ userProfiles'[lastTx'.user].isActive)
       => userProfiles'[lastTx'.user].trustScore
             = updateTrustScore(userProfiles'[lastTx'.user]).trustScore]_vars

\* C23: registerUser by an account that is already active fails with the
\* already-registered error and changes nothing; by any other account it
\* creates the profile with trustScore 100, all counters zero, zero token
\* balance and isActive true.
C23_RegisterOnceOnly ==
    [][Sends({"registerUser"})
       => IF userProfiles[lastTx'.sender].isActive
          THEN /\ ~lastTx'.ok
               /\ lastTx'.error = "User already registered"
               /\ UNCHANGED <<userProfiles, qtoBalances, hasUserRatedUser,
                              pendingRewards>>
          ELSE /\ lastTx'.ok
               /\ userProfiles'[lastTx'.sender] = NewProfile
               /\ userProfiles'[lastTx'.sender].trustScore = 100
               /\ userProfiles'[lastTx'.sender].qtoBalance = 0
               /\ \A a \in Addresses \ {lastTx'.sender} :
                     userProfiles'[a] = userProfiles[a]
               /\ UNCHANGED <<qtoBalances, hasUserRatedUser,
                              pendingRewards>>]_vars

\* an account that is registered and has a like on record calls registerUser
\* again and is refused
C23_Witness ==
    /\ lastTx.op = "registerUser"
    /\ ~lastTx.ok
    /\ lastTx.error = "User already registered"
    /\ ledgerOps = 3
    /\ userProfiles["A"].likes = 1

\* the trust level the bands of the claim give
BandOf(trustScore) ==
    IF trustScore >= 1000 THEN "very_high"
    ELSE IF trustScore >= 500 THEN "high"
    ELSE IF trustScore >= 100 THEN "medium"
    ELSE "low"

\* the four reasons of the claim for proceed = false
RefusedByClaim ==
    \/ ~account.found
    \/ ~account.isActive
    \/ account.reportCount > 5
    \/ (request.value = "large" /\ BandOf(account.trustScore) = "low")

\* the value of the call cannot be read as an integer
UnreadableValue == account.found /\ request.value = "malformed"

\* C25 as stated: the verdict is proceed = false exactly when the account is
\* not found, is inactive, has more than 5 reports, or the value is large
\* while the trust level is low; a large transfer from a medium-trust account
\* only adds a warning; the trust level follows the bands 1000, 500, 100.
C25_AssessExactlyFourReasons ==
    assessed.present =>
        /\ assessed.isValid = ~RefusedByClaim
        /\ account.found =>
              assessed.trustLevel = BandOf(account.trustScore)

\* C25 amended: as stated, with a fifth reason: a value that cannot be read
\* as an integer, for which the verdict is proceed = false with trust level
\* low whatever the account.
C25_AssessVerdict ==
    assessed.present =>
        /\ assessed.isValid = ~(RefusedByClaim \/ UnreadableValue)
        /\ (account.found /\ ~UnreadableValue) =>
              assessed.trustLevel = BandOf(account.trustScore)
        /\ UnreadableValue => assessed.trustLevel = "low"
        /\ (/\ account.found /\ account.isActive
            /\ account.reportCount <= 5
            /\ request.value = "large"
            /\ BandOf(account.trustScore) = "medium") =>
              assessed.isValid /\ assessed.warnings = 1

\* a large transfer from an active medium-trust account with 5 reports
C25_Witness ==
    /\ assessed.present
    /\ account.found /\ account.isActive
    /\ account.trustScore = 100 /\ account.reportCount = 5
    /\ request.value = "large"
    /\ assessed.isValid /\ assessed.warnings = 1
    /\ assessed.trustLevel = "medium"

\* the account sending this step's transaction has earned a reward
SenderHasEarned ==
    /\ userProfiles[lastTx'.sender].isActive
    /\ userProfiles[lastTx'.sender].totalEarned > 0

\* C26: after an account has earned a reward (recordValidation or
\* awardCommunityReward), claimRewards called by that account succeeds and
\* moves its pending reward into its rewardBalance, from which
\* withdrawRewards can then withdraw up to that amount.
C26_EarnedRewardsCanBeClaimed ==
    /\ [][(Sends({"claimRewards"}) /\ SenderHasEarned)
          => /\ lastTx'.ok
             /\ pendingRewards[lastTx'.sender] > 0
             /\ pendingRewards'[lastTx'.sender] = 0
             /\ userProfiles'[lastTx'.sender].rewardBalance
                    = userProfiles[lastTx'.sender].rewardBalance
                      + pendingRewards[lastTx'.sender]]_vars
    /\ [][(/\ Sends({"withdrawRewards"})
           /\ userProfiles[lastTx'.sender].isActive
           /\ lastTx'.amount <= userProfiles[lastTx'.sender].rewardBalance)
          => /\ lastTx'.ok
             /\ userProfiles'[lastTx'.sender].rewardBalance
                    = userProfiles[lastTx'.sender].rewardBalance
                      - lastTx'.amount]_vars

\* every transaction of the model
LedgerOperations ==
    {"registerUser", "recordLike", "recordComment", "recordPost",
     "recordHelpfulResponse", "recordValidation", "reportUser",
     "processQoneqtInteraction", "batchProcessQoneqtInteractions",
     "qtoTransfer", "fundContractQto", "emergencyWithdrawQto",
     "awardCommunityReward", "claimRewards", "withdrawRewards"}

\* the balance this step's transaction debits is smaller than its amount
Overdraws ==
    \/ /\ lastTx'.op \in {"qtoTransfer", "fundContractQto",
                          "emergencyWithdrawQto"}
       /\ qtoBalances[lastTx'.sender] < lastTx'.amount
    \/ /\ lastTx'.op = "withdrawRewards"
       /\ userProfiles[lastTx'.sender].rewardBalance < lastTx'.amount

\* C24: no debit underflows a balance and no failed operation has a partial
\* effect: qtoTransfer, fundContractQto, emergencyWithdrawQto, the payout of
\* _awardReward and withdrawRewards fail when the debited balance is smaller
\* than the amount, and every failing operation leaves the ledger unchanged.
C24_NoUnderflowNoPartialEffect ==
    /\ [](/\ \A h \in DOMAIN qtoBalances : qtoBalances[h] >= 0
          /\ \A a \in Addresses : userProfiles[a].rewardBalance >= 0)
    /\ [][(Sends(LedgerOperations) /\ ~lastTx'.ok)
          => UNCHANGED <<userProfiles, qtoBalances, hasUserRatedUser,
                         pendingRewards>>]_vars
    /\ [][(Sends(LedgerOperations) /\ Overdraws) => ~lastTx'.ok]_vars
    /\ [][(/\ Sends({"recordValidation", "awardCommunityReward"})
           /\ lastTx'.ok)
          => /\ lastTx'.paid <= qtoBalances[This]
             /\ qtoBalances'[This] = qtoBalances[This] - lastTx'.paid]_vars

\* a transfer refused because the sender holds less than the amount
C24_Witness ==
    /\ lastTx.op = "qtoTransfer"
    /\ ~lastTx.ok
    /\ lastTx.error = "Insufficient QTO balance"
    /\ qtoBalances[lastTx.sender] > 0
    /\ qtoBalances[lastTx.sender] < lastTx.amount

\* C27: the reward estimate matches the actual reward: the qtoAwarded that
\* processInteractionReward reports for a successful reward is the amount
\* processQoneqtInteraction credited to the account for that interaction.
C27_ReportedRewardIsCredited ==
    [][(Sends({"processInteractionReward"}) /\ lastTx'.ok)
       => /\ qtoBalances'[lastTx'.user]
                = qtoBalances[lastTx'.user] + lastTx'.paid
          /\ lastTx'.qtoAwarded = formatQtoAmount(lastTx'.paid)]_vars

\* the communityValidation the combinator gets for the call: the reputation
\* verdict with its recommendation, or none when no verdict was taken
CombinatorInput ==
    IF assessed.present THEN communityResult(assessed) ELSE NoCommunity

\* what the decision combinator makes of the call's verdicts: makeDecision
\* followed by the auto-approval step
CombinatorDecision ==
    LET d == makeDecision(classified, CombinatorInput, FALSE)
    IN  [d EXCEPT !.autoApproved =
            /\ d.approved
            /\ ~d.requiresManualReview
            /\ checkAutoApprovalEligibility(config, classified,
                                            CombinatorInput)]

CombinatorOutcome ==
    IF ~CombinatorDecision.approved THEN "rejected"
    ELSE IF ~CombinatorDecision.requiresManualReview
            \/ CombinatorDecision.autoApproved
    THEN "forwarded"
    ELSE "held"

\* C28: once interceptRPCCall has decided a call that has a classifier
\* verdict, what it did with the call (rejected, held for manual approval,
\* forwarded on receipt) is the decision combinator's outcome for the
\* classifier verdict, the reputation verdict and the auto-approve
\* configuration of the call, and the risk level it recorded is the
\* combinator's risk level.
C28_InterceptorActsOnCombinatorOutcome ==
    (classified # NoVerdict /\ Outcome \in {"rejected", "held", "forwarded"})
        => /\ Outcome = CombinatorOutcome
           /\ interceptedCalls[CallId].aiValidation.riskLevel
                = CombinatorDecision.riskLevel

\* validateTransaction has returned its result
Validated == pc = "done" /\ request.wellFormed

\* the decision d is what the four ordered rules give for the inputs
FollowsRules(d, aiValidation, communityValidation, forceManualReview) ==
    LET invalid == /\ communityValidation.present
                   /\ ~communityValidation.isValid
        review == /\ communityValidation.present
                  /\ communityValidation.recommendation = "manual_review"
    IN  /\ forceManualReview
            => /\ ~d.approved
               /\ d.requiresManualReview
               /\ d.riskLevel = aiValidation.riskLevel
        /\ (~forceManualReview /\ ~aiValidation.shouldProceed)
            => /\ ~d.approved
               /\ d.requiresManualReview <=> aiValidation.riskLevel = "MEDIUM"
        /\ (~forceManualReview /\ aiValidation.shouldProceed /\ invalid)
            => /\ ~d.approved
               /\ d.riskLevel = "HIGH"
               /\ d.requiresManualReview <=> review
        /\ (~forceManualReview /\ aiValidation.shouldProceed /\ ~invalid)
            => /\ d.approved
               /\ d.requiresManualReview
                    <=> (aiValidation.riskLevel = "HIGH" \/ review)

\* C29: makeDecision applies its four rules in order, first match wins: the
\* final decision of every validateTransaction is the one the rules give for
\* its classifier verdict, its reputation verdict and forceManualReview, and
\* so is makeDecision's answer for that classifier verdict with every
\* reputation verdict (any validity with any recommendation, or none) and
\* either value of forceManualReview.
C29_MakeDecisionOrderedRules ==
    Validated =>
        /\ FollowsRules(pipelineResult.finalDecision,
                        pipelineResult.aiValidation,
                        pipelineResult.communityValidation,
                        options.forceManualReview)
        /\ \A cv \in {v \in CommunityVerdicts : v.trustScore = 0},
              force \in BOOLEAN :
              FollowsRules(makeDecision(pipelineResult.aiValidation, cv,
                                        force),
                           pipelineResult.aiValidation, cv, force)

\* a call the classifier lets proceed is refused with risk HIGH because the
\* sender's reputation verdict is invalid
C29_Witness ==
    /\ Validated
    /\ ~options.forceManualReview
    /\ pipelineResult.aiValidation.shouldProceed
    /\ pipelineResult.aiValidation.riskLevel = "LOW"
    /\ pipelineResult.communityValidation.present
    /\ ~pipelineResult.communityValidation.isValid
    /\ ~pipelineResult.finalDecision.approved
    /\ ~pipelineResult.finalDecision.requiresManualReview
    /\ pipelineResult.finalDecision.riskLevel = "HIGH"

\* the sender's trustScore as the auto-approval step reads it: that of the
\* profile in the reputation verdict, 0 when there is no verdict or no
\* profile in it
ReputationTrustScore ==
    IF pipelineResult.communityValidation.present /\ account.found
    THEN account.trustScore ELSE 0

\* C30: in every result of validateTransaction, autoApproved is true iff the
\* decision is approved, requires no manual review, auto-approve is enabled,
\* the classifier risk is LOW or lowRiskOnly is off, and highTrustUsersOnly
\* is off or the reputation trustScore is at least 500 (0 without a
\* profile).
C30_AutoApprovedIffEligible ==
    Validated =>
        (pipelineResult.finalDecision.autoApproved
            <=> /\ pipelineResult.finalDecision.approved
                /\ ~pipelineResult.finalDecision.requiresManualReview
                /\ config.autoApprove.enabled
                /\ (pipelineResult.aiValidation.riskLevel = "LOW"
                    \/ ~config.autoApprove.lowRiskOnly)
                /\ (~config.autoApprove.highTrustUsersOnly
                    \/ ReputationTrustScore >= 500))

\* a call auto-approved under the high-trust-only policy for a sender whose
\* trustScore is exactly 500
C30_Witness ==
    /\ Validated
    /\ config.autoApprove.enabled
    /\ config.autoApprove.highTrustUsersOnly
    /\ pipelineResult.communityValidation.present
    /\ account.trustScore = 500
    /\ pipelineResult.finalDecision.approved
    /\ pipelineResult.finalDecision.autoApproved

\* the multiplier of the highest tier whose threshold is at most the score
TierMultiplierAt(trustScore) ==
    IF trustScore >= 1000 THEN 1500
    ELSE IF trustScore >= 500 THEN 1200
    ELSE IF trustScore >= 100 THEN 1000
    ELSE 800

C32_RunningMeanOfSignificance ==
    /\ [](\A a \in Addresses :
             /\ userProfiles[a].avgSignificanceScore >= 0
             /\ userProfiles[a].avgSignificanceScore <= 1000)
    /\ [][(/\ Sends({"processQoneqtInteraction", "processInteractionReward"})
           /\ lastTx'.ok)
          => LET old == userProfiles[lastTx'.user]
                 new == userProfiles'[lastTx'.user]
                 n == new.qoneqtInteractions
             IN  /\ n = old.qoneqtInteractions + 1
                 /\ new.avgSignificanceScore * n
                       <= old.avgSignificanceScore * (n - 1)
                          + lastTx'.aiSignificance
                 /\ (new.avgSignificanceScore + 1) * n
                       > old.avgSignificanceScore * (n - 1)
                         + lastTx'.aiSignificance]_vars

\* a third reward whose mean is rounded down: (950 * 2 + 900) / 3 = 933.33
C32_Witness ==
    /\ lastTx.op = "processQoneqtInteraction"
    /\ lastTx.ok
    /\ lastTx.aiSignificance = 900
    /\ userProfiles[lastTx.user].qoneqtInteractions = 3
    /\ userProfiles[lastTx.user].avgSignificanceScore = 933

\* C33: when the classifier's answer lacks a parseable RISK_LEVEL or
\* SHOULD_PROCEED line, classify raises no error (the handler goes on to the
\* reputation lookup or to its decision) and the missing field takes the
\* value the static fallback policy gives for the call's method.
C33_MissingFieldTakesFallbackValue ==
    [][\A reply \in ClassifierReplies :
          (~reply.error /\ AIReturn(reply))
          => /\ pc' \in {"community", "forward", "done"}
             /\ reply.risk = "absent"
                  => classified'.riskLevel
                        = FallbackOf(request.method).riskLevel
             /\ reply.proceed = "absent"
                  => classified'.shouldProceed
                        = FallbackOf(request.method).shouldProceed]_vars

\* C34: in every reachable state of the ledger the balances of all holders
\* (the treasury and every account) add up to qtoTotalSupply; only
\* mintQtoToContract changes the supply, and it raises the treasury by the
\* same amount.
C34_BalancesSumToSupply ==
    /\ [](TotalQto = qtoTotalSupply)
    /\ [][qtoTotalSupply' # qtoTotalSupply
          => /\ Sends({"mintQtoToContract"})
             /\ qtoBalances'[This] - qtoBalances[This]
                   = qtoTotalSupply' - qtoTotalSupply]_vars

\* C35: in every reachable state the token balance recorded in the profile
\* of a registered account equals its balance in the token ledger.
C35_ProfileBalanceIsLedgerBalance ==
    \A a \in Addresses :
        userProfiles[a].isActive
            => userProfiles[a].qtoBalance = qtoBalances[a]

\* C36: a positive interaction never lowers trust: a successful recordLike,
\* recordComment, recordPost, recordHelpfulResponse or recordValidation
\* leaves the account's trustScore at least what it was before, whatever
\* happened to the account earlier.
C36_PositiveInteractionKeepsTrust ==
    [][(/\ Sends({"recordLike", "recordComment", "recordPost",
                  "recordHelpfulResponse", "recordValidation"})
        /\ lastTx'.ok)
       => userProfiles'[lastTx'.user].trustScore
             >= userProfiles[lastTx'.user].trustScore]_vars

\* C37: whenever the reputation recommendation computed for a call is
\* 'reject', the final decision of validateTransaction is not approved.
C37_RejectRecommendationNeverApproved ==
    (/\ Validated
     /\ pipelineResult.communityValidation.present
     /\ pipelineResult.communityValidation.recommendation = "reject")
        => ~pipelineResult.finalDecision.approved

\* the accounts other than a that have marked a helpful
MarkedHelpfulBy(a) ==
    {s \in Addresses \ {a} : <<s, a>> \in hasUserRatedUser}

\* C38: an active account raises another account's helpfulResponses at most
\* once and never its own: each account's helpfulResponses is at most the
\* number of distinct other accounts that have marked it helpful, a
\* successful recordHelpfulResponse is the sender's first mark of that
\* account and adds one, and a repeated or self-directed one fails without
\* changing any counter or trustScore.
C38_OneHelpfulMarkPerPair ==
    /\ [](\A a \in Addresses :
             userProfiles[a].helpfulResponses
                <= Cardinality(MarkedHelpfulBy(a)))
    /\ [][(Sends({"recordHelpfulResponse"}) /\ lastTx'.ok)
          => /\ lastTx'.sender # lastTx'.user
             /\ lastTx'.sender \notin MarkedHelpfulBy(lastTx'.user)
             /\ userProfiles[lastTx'.sender].isActive
             /\ userProfiles'[lastTx'.user].helpfulResponses
                   = userProfiles[lastTx'.user].helpfulResponses + 1]_vars
    /\ [][(/\ Sends({"recordHelpfulResponse"})
           /\ \/ lastTx'.sender = lastTx'.user
              \/ lastTx'.sender \in MarkedHelpfulBy(lastTx'.user))
          => /\ ~lastTx'.ok
             /\ UNCHANGED <<userProfiles, hasUserRatedUser>>]_vars

\* B marked A helpful once; its second mark was refused and A's counter is
\* still 1
C38_Witness ==
    /\ lastTx.op = "recordHelpfulResponse"
    /\ ~lastTx.ok
    /\ lastTx.error = "Already rated this user"
    /\ lastTx.sender = "B"
    /\ lastTx.user = "A"
    /\ userProfiles["A"].helpfulResponses = 1
    /\ MarkedHelpfulBy("A") = {"B"}

====
